---------------------------- MODULE Spec2Model ----------------------------
(***************************************************************************)
(* Model of the mcp-youtube server core:                                   *)
(*   - withRetry (src/src/errors.ts, lines 95-128): bounded retry with     *)
(*     linear backoff and a retryable / non-retryable failure distinction; *)
(*   - SimpleCache (src/src/errors.ts, lines 143-267): file-backed cache   *)
(*     with per-entry expiry.                                              *)
(*   - one cache file written by set and read by get in other processes   *)
(*     (src/src/errors.ts, lines 172-181 and 204), step by step.          *)
(*   - the call-tool request handler and the tool handlers it dispatches  *)
(*     to (src/unnamed/part_000, lines 527-651 and 1114-1524).            *)
(* Each component has its own specification (SpecRetry, SpecRetryFair,    *)
(* SpecCache, SpecRace, SpecTools) over the variables it uses.            *)
(***************************************************************************)
EXTENDS Integers, Sequences, FiniteSets, TLC

VARIABLES
    \* ---- one call of withRetry(operation, maxRetries, delay) ----
    maxRetries,     \* argument maxRetries (default 3)
    delay,          \* argument delay in ms (default 1000)
    pc,             \* "start" | "calling" | "waiting" | "returned" | "thrown"
    attempt,        \* the loop variable of the for loop
    lastError,      \* the local lastError
    result,         \* <<v>> once the call has returned v, else <<>>
    thrown,         \* the failure the call has propagated, if pc = "thrown"
    invocations,    \* history: how many times operation() was invoked
    outcomes,       \* history: the outcome of every completed invocation
    waits,          \* history: every setTimeout duration awaited, in order
    \* ---- the SimpleCache instance and its directory ----
    files,          \* cache directory: file name -> file content
    now,            \* Date.now()
    lastOp,         \* history: the cache operation that completed last
    \* ---- one cache file shared by a writing and reading processes ----
    disk,           \* the file: whether its name exists, and its text
    writer,         \* the process inside set: position in writeFileSync
    readers,        \* the processes inside get: position, text read, result
    \* ---- the call-tool request handler and the tool handlers ----
    calls,          \* request id -> the call of the handler it started
    tmpDirs,        \* the temporary working directories that exist
    \* ---- get_video_info requests handled one after the other ----
    fetched,        \* history: url -> the last fetch by the external tool
    lastInfo,       \* history: the get_video_info call that ended last
    \* ---- one call of stripVttNonContent(vttContent, preserveTiming) ----
    vttContent,     \* argument vttContent, a string of characters
    preserveTiming, \* argument preserveTiming
    normalized      \* <<r>> once the call has ended with outcome r

retryVars == <<maxRetries, delay, pc, attempt, lastError, result, thrown,
               invocations, outcomes, waits>>
cacheVars == <<files, now, lastOp>>
raceVars == <<disk, writer, readers>>
toolVars == <<calls, tmpDirs>>
infoVars == <<fetched, lastInfo>>
vttVars == <<vttContent, preserveTiming, normalized>>
vars == <<maxRetries, delay, pc, attempt, lastError, result, thrown,
          invocations, outcomes, waits, files, now, lastOp,
          disk, writer, readers, calls, tmpDirs, fetched, lastInfo,
          vttContent, preserveTiming, normalized>>

(***************************************************************************)
(* Bounds of the model.                                                    *)
(***************************************************************************)
MaxRetriesBound == 3    \* maxRetries ranges over 0..MaxRetriesBound
MaxDays == 1            \* the clock runs up to MaxDays * DefaultTTL
MaxSets == 2            \* calls of set by the writing process
MaxGets == 1            \* calls of get by each reading process
MaxCalls == 2           \* call-tool requests the server receives
MaxInfoDays == 2        \* get_video_info: the clock runs this many days
MaxBodyLines == 3       \* lines of a caption document after its first

(***************************************************************************)
(* Program constants.                                                      *)
(***************************************************************************)
DefaultMaxRetries == 3
DefaultDelay == 1000
DefaultTTL == 86400000  \* 24 * 60 * 60 * 1000

(***************************************************************************)
(* Failures.  Every thrown value is a record of one shape:                 *)
(*   cls           "YouTubeMCPError" | "Error" | "undefined"               *)
(*   message       the message, a sequence of text fragments               *)
(*   code          the ErrorCodes member ("" when the class has none)      *)
(*   retryable     the retryable field (FALSE when the class has none)     *)
(*   originalError <<e>> when an original error e is attached, else <<>>   *)
(*   id            identity: the invocation that created the object,       *)
(*                 0 for an object created by withRetry itself             *)
(***************************************************************************)
ErrorCodes ==
    [ YT_DLP_NOT_FOUND |-> "YT_DLP_NOT_FOUND",
      VIDEO_NOT_FOUND  |-> "VIDEO_NOT_FOUND",
      NETWORK_ERROR    |-> "NETWORK_ERROR",
      UNKNOWN_ERROR    |-> "UNKNOWN_ERROR" ]

\* the value of an unassigned variable / an absent error
Undefined ==
    [cls |-> "undefined", message |-> <<>>, code |-> "", retryable |-> FALSE,
     originalError |-> <<>>, id |-> 0]

\* new YouTubeMCPError(message, code, retryable, originalError)
YouTubeMCPError(message, code, retryable, originalError, id) ==
    [cls |-> "YouTubeMCPError", message |-> message, code |-> code,
     retryable |-> retryable, originalError |-> originalError, id |-> id]

\* createMCPError called by withRetry
createMCPError(message, code, retryable, originalError) ==
    YouTubeMCPError(message, code, retryable, <<originalError>>, 0)

\* new Error(message): a failure that carries no classification
PlainError(message, id) ==
    [cls |-> "Error", message |-> message, code |-> "", retryable |-> FALSE,
     originalError |-> <<>>, id |-> id]

\* The failures operation() can reject with at its i-th invocation.
OperationErrors(i) ==
    { YouTubeMCPError(<<"Network error occurred while processing video">>,
                      ErrorCodes.NETWORK_ERROR, TRUE, <<>>, i),
      YouTubeMCPError(<<"yt-dlp is not installed or not accessible">>,
                      ErrorCodes.YT_DLP_NOT_FOUND, FALSE, <<>>, i),
      PlainError(<<"spawn yt-dlp ENOENT">>, i),
      PlainError(<<"ERROR: HTTP Error 404: Not Found">>, i) }

\* The values operation() can resolve with.
OperationValues == {"stdout-1", "stdout-2"}

\* One completed invocation of operation(), as recorded in outcomes; a
\* rejected one is recorded with ok FALSE and its error.
Resolved(v) == [ok |-> TRUE, value |-> v, error |-> Undefined]

(***************************************************************************)
(* withRetry, lines 95-128.                                                *)
(***************************************************************************)
\* line 102: the for loop's condition
LoopConditionOffByOne(a, m) == a <= m + 1
LoopCondition(a, m) == a <= m

\* line 109: error instanceof YouTubeMCPError && !error.retryable
IsNonRetryableNoInstanceof(e) == ~e.retryable
IsNonRetryableNegationLost(e) == e.cls = "YouTubeMCPError" /\ e.retryable
IsNonRetryable(e) == e.cls = "YouTubeMCPError" /\ ~e.retryable

\* lines 114-119: the failure thrown when the attempts are exhausted
ExhaustedErrorRethrowsLast(m, e) == e
ExhaustedError(m, e) ==
    createMCPError(<<"Operation failed after ", ToString(m), " attempts: ">>
                       \o e.message,
                   ErrorCodes.UNKNOWN_ERROR, FALSE, e)

\* line 123: the duration given to setTimeout
BackoffDelayConstant(d, a) == d
BackoffDelay(d, a) == d * a

InitRetry ==
    /\ maxRetries \in (0..MaxRetriesBound) \cup {DefaultMaxRetries}
    /\ delay \in {0, 1, DefaultDelay}
    /\ pc = "start"
    /\ attempt = 0
    /\ lastError = Undefined
    /\ result = <<>>
    /\ thrown = Undefined
    /\ invocations = 0
    /\ outcomes = <<>>
    /\ waits = <<>>

\* The head of the for loop with loop variable a: either operation() is
\* invoked (line 104) or the loop is left and line 127 throws lastError.
LoopHead(a) ==
    /\ attempt' = a
    /\ IF LoopCondition(a, maxRetries)
       THEN /\ pc' = "calling"
            /\ invocations' = invocations + 1
            /\ UNCHANGED thrown
       ELSE /\ pc' = "thrown"
            /\ thrown' = lastError
            /\ UNCHANGED invocations

\* lines 99-104: the call starts, attempt = 1
Start ==
    /\ pc = "start"
    /\ LoopHead(1)
    /\ UNCHANGED <<maxRetries, delay, lastError, result, outcomes, waits>>
    /\ UNCHANGED <<cacheVars, raceVars, toolVars, infoVars, vttVars>>

\* line 104: operation() resolves with v and withRetry returns it
OperationResolvesNoReturn(v) ==
    /\ pc = "calling"
    /\ outcomes' = Append(outcomes, Resolved(v))
    /\ LoopHead(attempt + 1)
    /\ UNCHANGED <<maxRetries, delay, lastError, result, waits>>
    /\ UNCHANGED <<cacheVars, raceVars, toolVars, infoVars, vttVars>>
OperationResolves(v) ==
    /\ pc = "calling"
    /\ pc' = "returned"
    /\ result' = <<v>>
    /\ outcomes' = Append(outcomes, Resolved(v))
    /\ UNCHANGED <<maxRetries, delay, attempt, lastError, thrown, invocations,
                   waits>>
    /\ UNCHANGED <<cacheVars, raceVars, toolVars, infoVars, vttVars>>

\* lines 105-123: operation() rejects with e; the catch block runs up to the
\* throw or up to the await of the backoff timer
OperationRejects(e) ==
    /\ pc = "calling"
    /\ lastError' = e
    /\ outcomes' = Append(outcomes,
                          [ok |-> FALSE, value |-> "", error |-> e])
    /\ IF IsNonRetryable(e)
       THEN /\ pc' = "thrown"
            /\ thrown' = e
            /\ UNCHANGED waits
       ELSE IF attempt = maxRetries  \* line 113
       THEN /\ pc' = "thrown"
            /\ thrown' = ExhaustedError(maxRetries, e)
            /\ UNCHANGED waits
       ELSE /\ pc' = "waiting"
            /\ waits' = Append(waits, BackoffDelay(delay, attempt))
            /\ UNCHANGED thrown
    /\ UNCHANGED <<maxRetries, delay, attempt, result, invocations>>
    /\ UNCHANGED <<cacheVars, raceVars, toolVars, infoVars, vttVars>>

\* line 123 -> 102: the backoff timer fires, attempt++ and the loop goes on
BackoffNeverResolves ==
    /\ pc = "waiting"
    /\ UNCHANGED vars
BackoffElapsed ==
    /\ pc = "waiting"
    /\ LoopHead(attempt + 1)
    /\ UNCHANGED <<maxRetries, delay, lastError, result, outcomes, waits>>
    /\ UNCHANGED <<cacheVars, raceVars, toolVars, infoVars, vttVars>>

(***************************************************************************)
(* JavaScript values handed to the cache, and their JSON form.             *)
(*   t  "null" | "number" | "string" | "object" | "NaN" | "undefined"      *)
(*   n  the number (of a number), the view_count (of an object)            *)
(*   s  the text (of a string), the title (of an object)                   *)
(***************************************************************************)
JsNull == [t |-> "null", n |-> 0, s |-> ""]
JsUndefined == [t |-> "undefined", n |-> 0, s |-> ""]
JsNumber(n) == [t |-> "number", n |-> n, s |-> ""]
JsObject(title, views) == [t |-> "object", n |-> views, s |-> title]

\* The values JSON can represent: what "JSON-serializable" means.
IsJsonValue(v) == v.t \in {"null", "number", "string", "object"}

\* Cache keys, as sequences of characters.
CacheKeys == { <<"v", ":", "a">>, <<"v", "_", "a">>, <<"v", ":", "b">> }

(***************************************************************************)
(* SimpleCache, lines 143-267.                                             *)
(***************************************************************************)
\* lines 158-162: getCacheFile; the characters of the model that are in
\* the class [a-zA-Z0-9_-] of line 160 are kept
getCacheFile(key) ==
    [i \in 1..Len(key) |->
       IF key[i] \in {"a", "b", "v", "0", "1", "_", "-"} THEN key[i]
       ELSE "_"]
        \o <<".json">>

\* file.endsWith('.json'), lines 227 and 248
EndsWithJson(file) == Len(file) >= 1 /\ file[Len(file)] = ".json"

\* A file whose text JSON.parse rejects (a write that failed part-way).
CorruptText ==
    [parses |-> FALSE, hasData |-> FALSE, data |-> JsNull, timestamp |-> 0,
     expiresAt |-> 0]

\* line 204: JSON.stringify(entry, null, 2); a property whose value is
\* undefined is left out of the text, and NaN becomes null
StringifyEntry(entry) ==
    [parses |-> TRUE,
     hasData |-> entry.data.t # "undefined",
     data |-> IF entry.data.t \in {"undefined", "NaN"} THEN JsNull
              ELSE entry.data,
     timestamp |-> entry.timestamp,
     expiresAt |-> entry.expiresAt]

\* lines 173 and 253: JSON.parse(content), for a text that parses
ParseEntry(text) ==
    [data |-> IF text.hasData THEN text.data ELSE JsUndefined,
     timestamp |-> text.timestamp,
     expiresAt |-> text.expiresAt]

\* fs.existsSync
ExistsSync(fs, f) == f \in DOMAIN fs

\* fs.unlinkSync
UnlinkSync(fs, f) == [g \in (DOMAIN fs) \ {f} |-> fs[g]]

\* fs.writeFileSync that completes, leaving the text of an existing file
WriteFileSyncKeepsExisting(fs, f, text) ==
    [g \in (DOMAIN fs) \cup {f} |-> IF g \in DOMAIN fs THEN fs[g] ELSE text]
\* fs.writeFileSync that completes
WriteFileSync(fs, f, text) ==
    [g \in (DOMAIN fs) \cup {f} |-> IF g = f THEN text ELSE fs[g]]

\* lines 175 and 255: Date.now() > entry.expiresAt
IsExpiredAtExpiry(t, entry) == t >= entry.expiresAt
IsExpired(t, entry) == t > entry.expiresAt

\* line 200: ttl || this.defaultTTL
TtlOrDefault(ttl) == IF ttl = <<>> \/ ttl[1] = 0 THEN DefaultTTL ELSE ttl[1]

\* line 177: the expired entry's file is removed
RemoveExpiredKeepsFile(fs, f) == fs
RemoveExpired(fs, f) == UnlinkSync(fs, f)

\* The outcome of one call of get: the directory afterwards, the value
\* returned, whether the call raised, and the path taken.
GetOutcome(fs, v, raised, path) ==
    [files |-> fs, result |-> v, raised |-> raised, path |-> path]

\* lines 164-193: get, a hit renewing the entry's time to live
CacheGetRenews(fs, t, key) ==
    LET f == getCacheFile(key) IN
    IF ~ExistsSync(fs, f) THEN GetOutcome(fs, JsNull, FALSE, "missing")
    ELSE IF ~fs[f].parses
         THEN GetOutcome(UnlinkSync(fs, f), JsNull, FALSE, "corrupt")
    ELSE IF IsExpired(t, ParseEntry(fs[f]))
         THEN GetOutcome(RemoveExpired(fs, f), JsNull, FALSE, "expired")
    ELSE GetOutcome([fs EXCEPT ![f].expiresAt = t + DefaultTTL],
                    ParseEntry(fs[f]).data, FALSE, "hit")
\* lines 164-193: get, the parse failure escaping to the caller
CacheGetNoCatch(fs, t, key) ==
    LET f == getCacheFile(key) IN
    IF ~ExistsSync(fs, f) THEN GetOutcome(fs, JsNull, FALSE, "missing")
    ELSE IF ~fs[f].parses THEN GetOutcome(fs, JsUndefined, TRUE, "corrupt")
    ELSE IF IsExpired(t, ParseEntry(fs[f]))
         THEN GetOutcome(RemoveExpired(fs, f), JsNull, FALSE, "expired")
    ELSE GetOutcome(fs, ParseEntry(fs[f]).data, FALSE, "hit")
\* lines 164-193: get
CacheGet(fs, t, key) ==
    LET f == getCacheFile(key) IN
    IF ~ExistsSync(fs, f) THEN GetOutcome(fs, JsNull, FALSE, "missing")
    ELSE IF ~fs[f].parses
         THEN \* lines 182-192: the catch block of get
              GetOutcome(UnlinkSync(fs, f), JsNull, FALSE, "corrupt")
    ELSE IF IsExpired(t, ParseEntry(fs[f]))
         THEN GetOutcome(RemoveExpired(fs, f), JsNull, FALSE, "expired")
    ELSE GetOutcome(fs, ParseEntry(fs[f]).data, FALSE, "hit")

\* lines 238-266: the files a cleanup sweep at time t removes, were the catch
\* of lines 258-261 to leave the file
CleanupRemovesExpiredOnly(fs, t) ==
    { f \in DOMAIN fs :
        /\ EndsWithJson(f)
        /\ fs[f].parses
        /\ IsExpired(t, ParseEntry(fs[f])) }
\* lines 238-266: the files a cleanup sweep at time t removes
CleanupRemoves(fs, t) ==
    { f \in DOMAIN fs :
        /\ EndsWithJson(f)
        /\ \/ ~fs[f].parses
           \/ IsExpired(t, ParseEntry(fs[f])) }

\* The record of the operation that completed last.
Op(op, key, data, ttl, wrote, res, raised, path) ==
    [op |-> op, key |-> key, data |-> data, ttl |-> ttl, wrote |-> wrote,
     result |-> res, raised |-> raised, path |-> path]
NoOp(op) == Op(op, <<>>, JsUndefined, <<>>, "", JsUndefined, FALSE, "")

\* How line 204 can end: the write completes; it throws before the file is
\* touched (JSON.stringify throws or the open fails); it throws after the
\* file was opened and truncated, leaving a text that is cut short.
WriteOutcomes == {"written", "refused", "truncated"}

InitCache ==
    /\ files = [f \in {} |-> CorruptText]
    /\ now = 0
    /\ lastOp = NoOp("init")

\* lines 164-193
Get(key) ==
    LET out == CacheGet(files, now, key) IN
    /\ files' = out.files
    /\ lastOp' = Op("get", key, JsUndefined, <<>>, "", out.result, out.raised,
                    out.path)
    /\ UNCHANGED now
    /\ UNCHANGED <<retryVars, raceVars, toolVars, infoVars, vttVars>>

\* The outcome of one call of set: the directory afterwards and whether the
\* call raised.
SetOutcome(fs, raised) == [files |-> fs, raised |-> raised]

\* lines 195-209: set, the failure of line 204 escaping to the caller
CacheSetNoCatch(fs, t, key, data, ttl, w) ==
    LET cacheFile == getCacheFile(key)
        entry == [data |-> data, timestamp |-> t,
                  expiresAt |-> t + TtlOrDefault(ttl)]
    IN
    CASE w = "written" ->
           SetOutcome(WriteFileSync(fs, cacheFile, StringifyEntry(entry)),
                      FALSE)
      [] w = "truncated" ->
           SetOutcome(WriteFileSync(fs, cacheFile, CorruptText), TRUE)
      [] w = "refused" -> SetOutcome(fs, TRUE)
\* lines 195-209: set.  Line 204 ends in one of WriteOutcomes; when it
\* throws, the catch block of lines 205-208 logs a warning and set returns.
CacheSet(fs, t, key, data, ttl, w) ==
    LET cacheFile == getCacheFile(key)
        entry == [data |-> data, timestamp |-> t,
                  expiresAt |-> t + TtlOrDefault(ttl)]
    IN
    CASE w = "written" ->
           SetOutcome(WriteFileSync(fs, cacheFile, StringifyEntry(entry)),
                      FALSE)
      [] w = "truncated" ->
           SetOutcome(WriteFileSync(fs, cacheFile, CorruptText), FALSE)
      [] w = "refused" -> SetOutcome(fs, FALSE)

\* History: this set follows at once a completed set under another key with
\* the same cache file.
SetPath(prev, key) ==
    IF /\ prev.op = "set"
       /\ prev.wrote = "written"
       /\ prev.key # key
       /\ getCacheFile(prev.key) = getCacheFile(key)
    THEN "collision" ELSE ""

\* lines 195-209
Set(key, data, ttl, w) ==
    LET out == CacheSet(files, now, key, data, ttl, w) IN
    /\ files' = out.files
    /\ lastOp' = Op("set", key, data, ttl, w, JsUndefined, out.raised,
                    SetPath(lastOp, key))
    /\ UNCHANGED now
    /\ UNCHANGED <<retryVars, raceVars, toolVars, infoVars, vttVars>>

\* The outcome of one call of delete: the directory afterwards, whether the
\* call raised, and the path taken.
DeleteOutcome(fs, raised, path) ==
    [files |-> fs, raised |-> raised, path |-> path]

\* lines 211-220: delete, leaving the file in place
CacheDeleteKeepsFile(fs, key) ==
    LET cacheFile == getCacheFile(key) IN
    IF ExistsSync(fs, cacheFile)
    THEN DeleteOutcome(fs, FALSE, "removed")
    ELSE DeleteOutcome(fs, FALSE, "absent")
\* lines 211-220: delete
CacheDelete(fs, key) ==
    LET cacheFile == getCacheFile(key) IN
    IF ExistsSync(fs, cacheFile)
    THEN DeleteOutcome(UnlinkSync(fs, cacheFile), FALSE, "removed")
    ELSE DeleteOutcome(fs, FALSE, "absent")

\* lines 211-220
Delete(key) ==
    LET out == CacheDelete(files, key) IN
    /\ files' = out.files
    /\ lastOp' = Op("delete", key, JsUndefined, <<>>, "", JsUndefined,
                    out.raised, out.path)
    /\ UNCHANGED now
    /\ UNCHANGED <<retryVars, raceVars, toolVars, infoVars, vttVars>>

\* lines 225-230: the files a clear removes, were it to skip the files
\* whose text parses
ClearRemovesCorruptOnly(fs) ==
    { g \in DOMAIN fs : EndsWithJson(g) /\ ~fs[g].parses }
\* lines 225-230: the files a clear removes
ClearRemoves(fs) == { g \in DOMAIN fs : EndsWithJson(g) }

\* lines 222-235
Clear ==
    LET removed == ClearRemoves(files) IN
    /\ files' = [f \in (DOMAIN files) \ removed |-> files[f]]
    /\ lastOp' = Op("clear", <<>>, JsUndefined, <<>>, "", JsUndefined, FALSE,
                    IF removed = {} THEN "" ELSE "removed")
    /\ UNCHANGED now
    /\ UNCHANGED <<retryVars, raceVars, toolVars, infoVars, vttVars>>

\* History: what the sweep of a cleanup removed: nothing, at least one
\* expired entry, or only files that do not parse.
CleanupPath(fs, removed) ==
    IF removed = {} THEN ""
    ELSE IF \E f \in removed : fs[f].parses THEN "expired"
    ELSE "corrupt"

\* lines 238-266
Cleanup ==
    LET removed == CleanupRemoves(files, now) IN
    /\ files' = [f \in (DOMAIN files) \ removed |-> files[f]]
    /\ lastOp' = Op("cleanup", <<>>, JsUndefined, <<>>, "", JsUndefined, FALSE,
                    CleanupPath(files, removed))
    /\ UNCHANGED now
    /\ UNCHANGED <<retryVars, raceVars, toolVars, infoVars, vttVars>>

\* Time passes.  The clock is observed at multiples of the default
\* time-to-live; a ttl of 1 or -1 puts expiry times beside these instants.
Tick ==
    /\ now + DefaultTTL <= MaxDays * DefaultTTL
    /\ now' = now + DefaultTTL
    /\ lastOp' = NoOp("tick")
    /\ UNCHANGED files
    /\ UNCHANGED <<retryVars, raceVars, toolVars, infoVars, vttVars>>

NextCache ==
    \/ \E key \in CacheKeys : Get(key)
    \* the data passed to set: an object, null, NaN; the ttl argument:
    \* <<>> when omitted, <<n>> when given
    \/ \E key \in CacheKeys,
          data \in {JsObject("Some Title", 42), JsNull,
                    [t |-> "NaN", n |-> 0, s |-> ""]},
          ttl \in {<<>>, <<0>>, <<-1>>, <<1>>},
          w \in WriteOutcomes : Set(key, data, ttl, w)
    \/ \E key \in CacheKeys : Delete(key)
    \/ Clear
    \/ Cleanup
    \/ Tick

(***************************************************************************)
(* One cache file under concurrent use.  The cache directory is shared by  *)
(* every server process of the machine without locking, and line 204       *)
(* (fs.writeFileSync) is not atomic for another process: the file is       *)
(* opened with truncation and its text then arrives piece by piece.  The   *)
(* text of a file is the sequence of the JSON tokens written so far.       *)
(***************************************************************************)
\* the processes calling get
Readers == {"r1", "r2"}

\* the values the writer stores
RaceData == {JsObject("Some Title", 42), JsNumber(7)}

\* the numbers that occur in a text
TextNumbers == {0, 7, 42, DefaultTTL}

\* line 204: JSON.stringify of a value, as tokens
StringifyValue(v) ==
    CASE v.t = "object" ->
           <<"{", "title:", v.s, ",", "view_count:", ToString(v.n), "}">>
      [] v.t = "number" -> <<ToString(v.n)>>
      [] v.t = "string" -> <<v.s>>
      [] OTHER -> <<"null">>

\* line 204: JSON.stringify(entry, null, 2), as tokens
StringifyText(entry) ==
    <<"{">>
    \o (IF entry.data.t = "undefined" THEN <<>>
        ELSE <<"data:">> \o StringifyValue(entry.data) \o <<",">>)
    \o <<"timestamp:", ToString(entry.timestamp), ",">>
    \o <<"expiresAt:", ToString(entry.expiresAt), "}">>

IsKeyToken(tok) ==
    tok \in {"data:", "timestamp:", "expiresAt:", "title:", "view_count:"}

\* The JSON grammar as an automaton over tokens: st is what may come next
\* ("value", "keyOrClose", "commaOrClose", "key", "end", "bad"), depth the
\* number of objects that are open.
JsonClose(depth) ==
    [st |-> IF depth - 1 = 0 THEN "end" ELSE "commaOrClose",
     depth |-> depth - 1]
JsonStep(q, tok) ==
    CASE q.st = "value" /\ tok = "{" ->
           [st |-> "keyOrClose", depth |-> q.depth + 1]
      [] /\ q.st = "value"
         /\ tok \notin {"{", "}", ","} /\ ~IsKeyToken(tok) ->
           [st |-> IF q.depth = 0 THEN "end" ELSE "commaOrClose",
            depth |-> q.depth]
      [] q.st = "keyOrClose" /\ IsKeyToken(tok) ->
           [st |-> "value", depth |-> q.depth]
      [] q.st = "keyOrClose" /\ tok = "}" -> JsonClose(q.depth)
      [] q.st = "commaOrClose" /\ tok = "," ->
           [st |-> "key", depth |-> q.depth]
      [] q.st = "commaOrClose" /\ tok = "}" -> JsonClose(q.depth)
      [] q.st = "key" /\ IsKeyToken(tok) -> [st |-> "value", depth |-> q.depth]
      [] OTHER -> [st |-> "bad", depth |-> 0]

RECURSIVE JsonRun(_, _)
JsonRun(q, text) ==
    IF text = <<>> THEN q ELSE JsonRun(JsonStep(q, Head(text)), Tail(text))

\* the automaton's state after the first i tokens of text
JsonAfter(text, i) == JsonRun([st |-> "value", depth |-> 0], SubSeq(text, 1, i))

\* lines 173 and 253: JSON.parse accepts the text, were it to accept a text
\* that stops before its end
JsonAcceptsPrefix(text) ==
    /\ text # <<>>
    /\ JsonAfter(text, Len(text)).st # "bad"
    /\ \E i \in 1..Len(text) : text[i] = "data:" /\ JsonAfter(text, i - 1).depth = 1
    /\ JsonAfter(text, Len(text)).st \in {"end", "commaOrClose"}
    /\ JsonAfter(text, Len(text)).depth <= 1
\* lines 173 and 253: JSON.parse accepts the text
JsonAccepts(text) == JsonAfter(text, Len(text)).st = "end"

\* the tokens of the value of top-level member key of an accepted text
\* (<<>> when the object has no such member)
MemberTokens(text, key) ==
    LET at == { i \in 1..Len(text) :
                  text[i] = key /\ JsonAfter(text, i - 1).depth = 1 }
    IN  IF at = {} THEN <<>>
        ELSE LET i == CHOOSE i \in at : \A j \in at : i >= j
                 last == CHOOSE e \in (i + 1)..Len(text) :
                           /\ JsonAfter(text, e).depth = 1
                           /\ JsonAfter(text, e).st = "commaOrClose"
                           /\ \A d \in (i + 1)..(e - 1) :
                                ~( /\ JsonAfter(text, d).depth = 1
                                   /\ JsonAfter(text, d).st = "commaOrClose" )
             IN  SubSeq(text, i + 1, last)

ParseNumber(tok) ==
    IF \E n \in TextNumbers : ToString(n) = tok
    THEN JsNumber(CHOOSE n \in TextNumbers : ToString(n) = tok)
    ELSE [t |-> "string", n |-> 0, s |-> tok]

\* JSON.parse of the tokens of one value
ParseValue(toks) ==
    IF toks = <<>> THEN JsUndefined
    ELSE IF toks = <<"null">> THEN JsNull
    ELSE IF toks[1] = "{"
         THEN JsObject(MemberTokens(toks, "title:")[1],
                       ParseNumber(MemberTokens(toks, "view_count:")[1]).n)
    ELSE ParseNumber(toks[1])

\* lines 173 and 253: JSON.parse(content) of an accepted text.  A member
\* the text lacks is undefined; undefined compared with Date.now() is false,
\* so an entry without expiresAt never expires.
ParseText(text) ==
    LET exp == MemberTokens(text, "expiresAt:")
        ts  == MemberTokens(text, "timestamp:")
    IN  [data |-> ParseValue(MemberTokens(text, "data:")),
         timestamp |-> IF ts = <<>> THEN 0 ELSE ParseNumber(ts[1]).n,
         hasExpiry |-> exp # <<>>,
         expiresAt |-> IF exp = <<>> THEN 0 ELSE ParseNumber(exp[1]).n]

\* the text holds the whole value of the top-level member data
HoldsData(text) ==
    \E i \in 1..Len(text) :
        /\ text[i] = "data:"
        /\ JsonAfter(text, i - 1).depth = 1
        /\ \E e \in (i + 1)..Len(text) :
               /\ JsonAfter(text, e).depth = 1
               /\ JsonAfter(text, e).st = "commaOrClose"

\* a reading process: pc is "idle" | "checked" | "read" | "done"; snap is
\* the local content; partial and sawData are history: the text was read
\* while incomplete, and it held the whole value of data
ReaderIdle ==
    [pc |-> "idle", snap |-> <<>>, partial |-> FALSE, sawData |-> FALSE,
     result |-> JsUndefined, path |-> "", gets |-> 0]

InitRace ==
    /\ disk = [linked |-> FALSE, text |-> <<>>, complete |-> FALSE]
    \* the writing process: pc is "idle" | "writing" | "done" | "failed"
    /\ writer = [pc |-> "idle", text |-> <<>>, data |-> JsUndefined,
                 pos |-> 0, attached |-> FALSE, sets |-> 0]
    /\ readers = [r \in Readers |-> ReaderIdle]

\* lines 195-204: set(k, data) builds the entry; writeFileSync opens the
\* file, creating it or truncating it to length 0
SetOpen(data) ==
    /\ writer.pc # "writing"
    /\ writer.sets < MaxSets
    /\ writer' = [pc |-> "writing",
                  text |-> StringifyText([data |-> data, timestamp |-> now,
                              expiresAt |-> now + TtlOrDefault(<<>>)]),
                  data |-> data, pos |-> 0, attached |-> TRUE,
                  sets |-> writer.sets + 1]
    /\ disk' = [linked |-> TRUE, text |-> <<>>, complete |-> FALSE]
    /\ UNCHANGED readers
    /\ UNCHANGED <<retryVars, cacheVars, toolVars, infoVars, vttVars>>

\* line 204: the next piece of the text reaches the file the writer holds
\* open; after a reader's unlink that file has no name any more
SetWrite ==
    /\ writer.pc = "writing"
    /\ LET pos == writer.pos + 1
           finished == pos = Len(writer.text)
       IN  /\ writer' = [writer EXCEPT !.pos = pos,
                           !.pc = IF finished THEN "done" ELSE "writing"]
           /\ disk' = IF writer.attached
                      THEN [disk EXCEPT !.text = Append(@, writer.text[pos]),
                                        !.complete = finished]
                      ELSE disk
    /\ UNCHANGED readers
    /\ UNCHANGED <<retryVars, cacheVars, toolVars, infoVars, vttVars>>

\* lines 205-208: writeFileSync throws part-way; set logs and returns
SetFails ==
    /\ writer.pc = "writing"
    /\ writer' = [writer EXCEPT !.pc = "failed"]
    /\ UNCHANGED <<disk, readers>>
    /\ UNCHANGED <<retryVars, cacheVars, toolVars, infoVars, vttVars>>

\* the fields of a reader whose get has returned v
ReaderDone(rd, v, path) ==
    [rd EXCEPT !.pc = "done", !.result = v, !.path = path, !.snap = <<>>]

\* lines 165-170: get(k) starts; existsSync
GetExists(r) ==
    /\ readers[r].pc \in {"idle", "done"}
    /\ readers[r].gets < MaxGets
    /\ LET rd == [ReaderIdle EXCEPT !.gets = readers[r].gets + 1] IN
       readers' = [readers EXCEPT ![r] =
                     IF disk.linked THEN [rd EXCEPT !.pc = "checked"]
                     ELSE ReaderDone(rd, JsNull, "missing")]
    /\ UNCHANGED <<disk, writer>>
    /\ UNCHANGED <<retryVars, cacheVars, toolVars, infoVars, vttVars>>

\* line 172: readFileSync returns the text the file has at this instant; it
\* throws when the file is gone, and the catch block returns null
GetRead(r) ==
    /\ readers[r].pc = "checked"
    /\ readers' = [readers EXCEPT ![r] =
                     IF disk.linked
                     THEN [@ EXCEPT !.pc = "read", !.snap = disk.text,
                                    !.partial = ~disk.complete,
                                    !.sawData = HoldsData(disk.text)]
                     ELSE ReaderDone(@, JsNull, "missing")]
    /\ UNCHANGED <<disk, writer>>
    /\ UNCHANGED <<retryVars, cacheVars, toolVars, infoVars, vttVars>>

\* unlinkSync of the cache file by a reader
RaceUnlink ==
    /\ disk' = [linked |-> FALSE, text |-> <<>>, complete |-> FALSE]
    /\ writer' = [writer EXCEPT !.attached = FALSE]

\* lines 173-192: JSON.parse of the text read, the expiry test and the
\* return; a text that does not parse or an expired entry is unlinked
GetFinish(r) ==
    /\ readers[r].pc = "read"
    /\ LET text == readers[r].snap IN
       IF ~JsonAccepts(text)
       THEN /\ readers' = [readers EXCEPT ![r] = ReaderDone(@, JsNull, "corrupt")]
            /\ IF disk.linked THEN RaceUnlink ELSE UNCHANGED <<disk, writer>>
       ELSE LET entry == ParseText(text) IN
            IF entry.hasExpiry /\ IsExpired(now, entry)
            THEN /\ readers' = [readers EXCEPT ![r] =
                                  ReaderDone(@, JsNull, "expired")]
                 /\ IF disk.linked THEN RaceUnlink
                    ELSE UNCHANGED <<disk, writer>>
            ELSE /\ readers' = [readers EXCEPT ![r] =
                                  ReaderDone(@, entry.data, "hit")]
                 /\ UNCHANGED <<disk, writer>>
    /\ UNCHANGED <<retryVars, cacheVars, toolVars, infoVars, vttVars>>

NextRace ==
    \/ \E data \in RaceData : SetOpen(data)
    \/ SetWrite
    \/ SetFails
    \/ \E r \in Readers : GetExists(r)
    \/ \E r \in Readers : GetRead(r)
    \/ \E r \in Readers : GetFinish(r)

(***************************************************************************)
(* The call-tool request handler (part_000, lines 1463-1524) and the tool  *)
(* handlers.  A handler is an async function: the code between two awaits  *)
(* runs without interruption, and while a call waits for yt-dlp or for a   *)
(* backoff timer the event loop runs whatever else is ready.  The handler  *)
(* holds no lock and keeps no queue, so a request is dispatched when it    *)
(* arrives.  A temporary directory carries the id of the request that      *)
(* created it (mkdtempSync returns a fresh name on every call).            *)
(***************************************************************************)
\* lines 288-502: the names of the tools the list-tools handler returns
AdvertisedTools ==
    {"download_thumbnail", "download_audio", "download_video_segment",
     "download_video", "get_video_info", "list_available_subtitles",
     "download_subtitles", "download_video_metadata"}

\* lines 1468-1492: the cases of the switch
ToolNames ==
    {"download_video", "get_video_info", "list_available_subtitles",
     "download_subtitles", "download_video_metadata"}

\* line 532: the cache key of get_video_info, `video_info:${url}`
InfoKey == <<"v", ":", "a">>

\* the handlers whose own catch block turns a failure into a response
\* (lines 627-650, 1185-1207, 1355-1377); handleDownloadVideoMetadata has
\* try / finally only
HasHandlerCatch(tool) == tool # "download_video_metadata"

\* the handlers that create the directory inside that try block (lines 545
\* and 1140); the others create it before the try (1146, 1232, 1385)
TmpInsideTry(tool) == tool \in {"get_video_info", "download_video"}

\* the handlers that first ask yt-dlp for its version (lines 549, 1150, 1389)
ChecksYtDlp(tool) == tool # "download_subtitles"

\* a response of the call-tool handler
NoResponse == [present |-> FALSE, isError |-> FALSE, text |-> <<>>]
Response(text) == [present |-> TRUE, isError |-> FALSE, text |-> text]
ErrorResponse(e) ==
    [present |-> TRUE, isError |-> TRUE, text |-> <<"Error: ">> \o e.message]

\* errors.ts lines 38-93: handleYtDlpError, for the messages of the model
\* (none mentions age, subtitles or a format); the tests are made in the
\* order of the code, '404' first
handleYtDlpError(error) ==
    IF error.message = <<"ERROR: HTTP Error 404: Not Found">>
    THEN createMCPError(<<"Video not found or unavailable: ", "url">>,
                        ErrorCodes.VIDEO_NOT_FOUND, FALSE, error)
    ELSE IF error.message = <<"ERROR: network is unreachable">>
    THEN createMCPError(<<"Network error occurred while processing video">>,
                        ErrorCodes.NETWORK_ERROR, TRUE, error)
    ELSE createMCPError(<<"Unexpected error: ">> \o error.message,
                        ErrorCodes.UNKNOWN_ERROR, TRUE, error)

\* What one call of a handler, or of the switch, comes to: a response
\* returned or a failure thrown.
Returned(r) == [threw |-> FALSE, response |-> r, error |-> Undefined]
Threw(e) == [threw |-> TRUE, response |-> NoResponse, error |-> e]

\* lines 627-650, 1185-1207, 1355-1377: the catch block of a handler
HandlerCatch(error) ==
    IF error.cls = "YouTubeMCPError"
    THEN Returned(ErrorResponse(error))
    ELSE Returned(ErrorResponse(handleYtDlpError(error)))

\* lines 1499-1523: the catch block of the call-tool handler, rethrowing
DispatcherRethrows(error) == Threw(error)
\* lines 1499-1523: the catch block of the call-tool handler
DispatcherCatch(error) == Returned(ErrorResponse(error))

\* lines 1466-1523: try { switch ... return await handler } catch
Dispatch(out) == IF out.threw THEN DispatcherCatch(out.error) ELSE out

\* a failure inside the try block of the handler of tool
HandlerFailure(tool, error) ==
    Dispatch(IF HasHandlerCatch(tool) THEN HandlerCatch(error)
             ELSE Threw(error))

\* lines 624-626, 1208-1210, 1378-1380, 1458-1460: finally, skipped
FinallyKeepsDir(dirs, d) == dirs
\* lines 624-626, 1208-1210, 1378-1380, 1458-1460:
\* finally { rimraf.sync(tempDir) }
FinallyRimraf(dirs, d) == dirs \ {d}

\* The failures of the awaited operations.  The version check of lines
\* 549-560 turns every failure into a non-retryable YT_DLP_NOT_FOUND, which
\* withRetry rethrows at once; a yt-dlp run that fails rejects with a plain
\* Error, which withRetry retries and then wraps.
SpawnErrors ==
    {PlainError(<<"spawn yt-dlp ENOENT">>, 1),
     PlainError(<<"ERROR: network is unreachable">>, 1),
     PlainError(<<"ERROR: HTTP Error 404: Not Found">>, 1)}
YtDlpNotFound ==
    YouTubeMCPError(<<"yt-dlp is not installed. Please install yt-dlp first">>,
                    ErrorCodes.YT_DLP_NOT_FOUND, FALSE, <<>>, 1)
\* lines 1389-1393: handleDownloadVideoMetadata throws a plain Error instead
YtDlpNotInstalled ==
    PlainError(<<"yt-dlp is not installed. Please install yt-dlp first.">>, 1)
CheckFailures(tool) ==
    IF tool = "download_video_metadata" THEN {YtDlpNotInstalled}
    ELSE {YtDlpNotFound}
FetchFailures(tool) ==
    IF tool = "download_video_metadata" THEN SpawnErrors
    ELSE {ExhaustedError(DefaultMaxRetries, e) : e \in SpawnErrors}

\* the failures of the code that follows the last await: JSON.parse of the
\* output (lines 586, 1415), no subtitle file in the directory (1324-1329)
SyntaxError == PlainError(<<"Unexpected token W in JSON at position 0">>, 1)
NoSubtitles ==
    YouTubeMCPError(<<"No subtitles were downloaded.">>,
                    "SUBTITLES_NOT_AVAILABLE", TRUE, <<>>, 1)
ProcessFailure(tool) ==
    IF tool = "download_subtitles" THEN NoSubtitles ELSE SyntaxError

\* A time argument is the sequence of the numbers between its colons,
\* timeStr.split(':').map(Number): "1:05" is <<1, 5>>; an argument that is
\* absent is <<>>.
\* lines 505-513: parseTimeToSeconds; threw is set where it throws
parseTimeToSeconds(parts) ==
    IF Len(parts) = 2
    THEN [threw |-> FALSE, value |-> parts[1] * 60 + parts[2]]
    ELSE IF Len(parts) = 3
    THEN [threw |-> FALSE,
          value |-> parts[1] * 3600 + parts[2] * 60 + parts[3]]
    ELSE [threw |-> TRUE, value |-> 0]

\* lines 1218-1219: the pairs of time_start and time_end of the requests
TimeRanges ==
    { << <<>>, <<>> >>, << <<1, 5>>, <<0, 0>> >>,
      << <<1, 5>>, <<0, 1, 5>> >>, << <<5>>, <<>> >> }

\* lines 1266-1276: the test of the time range, giving the way the handler
\* leaves it: "" (it goes on), "time-range" (line 1271 throws) or
\* "time-format" (parseTimeToSeconds throws).  endSeconds is undefined for
\* an absent time_end, which the tests of lines 1270 and 1278 take as they
\* take 0.
TimeRangeCheck(time_start, time_end) ==
    IF time_start = <<>> /\ time_end = <<>> THEN ""
    ELSE
      LET startSeconds == IF time_start # <<>>
                          THEN parseTimeToSeconds(time_start)
                          ELSE [threw |-> FALSE, value |-> 0]
          endSeconds == IF time_end # <<>>
                        THEN parseTimeToSeconds(time_end)
                        ELSE [threw |-> FALSE, value |-> 0]
      IN
      IF startSeconds.threw \/ endSeconds.threw THEN "time-format"
      ELSE IF endSeconds.value # 0 /\ startSeconds.value >= endSeconds.value
      THEN "time-range"
      ELSE ""

\* line 512: the failure parseTimeToSeconds throws
InvalidTimeFormat ==
    PlainError(<<"Invalid time format: ", "5", ". Use MM:SS or HH:MM:SS">>,
               1)
\* lines 1270-1276, 1129-1137: the failures thrown before the first await
BadTimeRange ==
    YouTubeMCPError(<<"Start time must be before end time">>,
                    ErrorCodes.UNKNOWN_ERROR, FALSE, <<>>, 1)
NoSaveDir ==
    YouTubeMCPError(<<"Cannot create save directory">>,
                    ErrorCodes.UNKNOWN_ERROR, FALSE, <<>>, 1)
MkdtempError == PlainError(<<"ENOSPC: no space left on device, mkdtemp">>, 1)
\* line 1493: the default case of the switch
UnknownTool(name) ==
    YouTubeMCPError(<<"Unknown tool: ", name>>,
                    ErrorCodes.UNKNOWN_ERROR, FALSE, <<>>, 1)

\* History: the exit path of a call that ended with failure e.
ExitOf(e) ==
    IF e.cls = "Error" THEN "unclassified"
    ELSE IF e.id = 0 /\ e.message[1] = "Operation failed after "
         THEN "exhausted"
    ELSE "classified"

\* One call: the tool, the position ("none" before the request arrives,
\* "check" | "fetch" | "meta" while an await is pending, "done"), the
\* directory it holds (0: none), the response the client receives, whether
\* the call-tool handler threw; history: the directory it created, the exit
\* path taken, the failure met if any, a failure handled on the way.
NoCall ==
    [tool |-> "", pc |-> "none", tmp |-> 0, response |-> NoResponse,
     threw |-> FALSE, created |-> 0, exit |-> "", failure |-> Undefined,
     swallowed |-> FALSE, time_start |-> <<>>, time_end |-> <<>>]

Requests == 1..MaxCalls
InFlight == { c \in Requests : calls[c].pc \notin {"none", "done"} }

InitTools ==
    /\ calls = [c \in Requests |-> NoCall]
    /\ tmpDirs = {}

\* the call c, ended by out on exit path exit
Ended(call, out, exit, e) ==
    [call EXCEPT !.pc = "done", !.tmp = 0, !.response = out.response,
                 !.threw = out.threw, !.exit = exit, !.failure = e]

\* A request for a tool whose name is no case of the switch: the default
\* case throws (line 1493) and the catch block of the call-tool handler
\* answers.
CallUnknownTool(c, name) ==
    /\ calls[c].pc = "none"
    /\ name \notin ToolNames
    /\ calls' = [calls EXCEPT ![c] =
                   Ended([NoCall EXCEPT !.tool = name],
                         Dispatch(Threw(UnknownTool(name))), "unknown-tool",
                         UnknownTool(name))]
    /\ UNCHANGED tmpDirs
    /\ UNCHANGED <<retryVars, cacheVars, raceVars, infoVars, vttVars>>

\* get_video_info answered from the cache (lines 531-543): no directory is
\* created.
CallCached(c) ==
    LET got == CacheGet(files, now, InfoKey) IN
    /\ calls[c].pc = "none"
    /\ got.result # JsNull
    /\ calls' = [calls EXCEPT ![c] =
                   Ended([NoCall EXCEPT !.tool = "get_video_info"],
                         Dispatch(Returned(Response(
                             <<"Video Information (cached):">>))),
                         "cached", Undefined)]
    /\ files' = got.files
    /\ UNCHANGED <<tmpDirs, now, lastOp>>
    /\ UNCHANGED <<retryVars, raceVars, infoVars, vttVars>>

\* A request for a tool arrives and its handler runs up to its first await
\* (lines 527-549, 1114-1142, 1144-1150, 1213-1294, 1383-1389): the cache
\* is asked (get_video_info), the save directory is made (download_video),
\* mkdtempSync creates the directory, the time range is tested
\* (download_subtitles).  early is the failure met on the way, if any;
\* time_start and time_end are the arguments of download_subtitles.
CallTool(c, tool, early, time_start, time_end) ==
    LET got == CacheGet(files, now, InfoKey)
        call == [NoCall EXCEPT !.tool = tool, !.time_start = time_start,
                               !.time_end = time_end]
    IN
    /\ calls[c].pc = "none"
    /\ IF tool = "download_subtitles"
       THEN early \in {"mkdtemp", TimeRangeCheck(time_start, time_end)}
       ELSE time_start = <<>> /\ time_end = <<>>
    /\ tool = "get_video_info" => got.result = JsNull
    /\ files' = IF tool = "get_video_info" THEN got.files ELSE files
    /\ CASE early = "mkdir" ->
              /\ tool = "download_video"
              /\ calls' = [calls EXCEPT ![c] =
                             Ended(call, HandlerFailure(tool, NoSaveDir),
                                   ExitOf(NoSaveDir), NoSaveDir)]
              /\ UNCHANGED tmpDirs
         [] early = "mkdtemp" ->
              /\ calls' = [calls EXCEPT ![c] =
                             Ended(call,
                                   IF TmpInsideTry(tool)
                                   THEN HandlerFailure(tool, MkdtempError)
                                   ELSE Dispatch(Threw(MkdtempError)),
                                   ExitOf(MkdtempError), MkdtempError)]
              /\ UNCHANGED tmpDirs
         [] early \in {"time-range", "time-format"} ->
              LET e == IF early = "time-range" THEN BadTimeRange
                       ELSE InvalidTimeFormat
              IN
              /\ tool = "download_subtitles"
              /\ calls' = [calls EXCEPT ![c] =
                             Ended([call EXCEPT !.created = c],
                                   HandlerFailure(tool, e), ExitOf(e), e)]
              /\ tmpDirs' = FinallyRimraf(tmpDirs \cup {c}, c)
         [] early = "" ->
              /\ calls' = [calls EXCEPT ![c] =
                             [call EXCEPT !.tmp = c, !.created = c,
                                !.pc = IF ChecksYtDlp(tool) THEN "check"
                                       ELSE "fetch"]]
              /\ tmpDirs' = tmpDirs \cup {c}
    /\ UNCHANGED <<now, lastOp>>
    /\ UNCHANGED <<retryVars, raceVars, infoVars, vttVars>>

\* The awaited yt-dlp run of call c fails with e: the finally block removes
\* the directory and the failure goes to the handler's catch block or, for
\* handleDownloadVideoMetadata, to the caller.
AwaitRejects(c, e) ==
    /\ calls[c].pc \in {"check", "fetch"}
    /\ e \in IF calls[c].pc = "check" THEN CheckFailures(calls[c].tool)
             ELSE FetchFailures(calls[c].tool)
    /\ calls' = [calls EXCEPT ![c] =
                   Ended(@, HandlerFailure(@.tool, e), ExitOf(e), e)]
    /\ tmpDirs' = FinallyRimraf(tmpDirs, calls[c].tmp)
    /\ UNCHANGED <<retryVars, cacheVars, raceVars, infoVars, vttVars>>

\* The version check of call c succeeds (lines 549-560, 1150-1161,
\* 1389-1393); the handler starts the yt-dlp run.
CheckResolves(c) ==
    /\ calls[c].pc = "check"
    /\ calls' = [calls EXCEPT ![c].pc = "fetch"]
    /\ UNCHANGED tmpDirs
    /\ UNCHANGED <<retryVars, cacheVars, raceVars, infoVars, vttVars>>

\* The subtitle download of call c succeeds (lines 1284-1286) and, as
\* include_metadata is set, the handler asks for the metadata (1292-1301).
SubtitlesResolve(c) ==
    /\ calls[c].pc = "fetch"
    /\ calls[c].tool = "download_subtitles"
    /\ calls' = [calls EXCEPT ![c].pc = "meta"]
    /\ UNCHANGED tmpDirs
    /\ UNCHANGED <<retryVars, cacheVars, raceVars, infoVars, vttVars>>

\* The last await of call c is over and the rest of the handler runs: the
\* output is parsed or the subtitle files are read; get_video_info stores
\* the result in the cache (line 603); the finally block removes the
\* directory; the response is returned.  usable says whether the output
\* parses / a subtitle file is there; metaOk whether the metadata of lines
\* 1292-1317 was obtained (its failure is caught at line 1315 and only
\* noted in the text); w is how the write of cache.set ends.
Complete(c, usable, metaOk, w) ==
    LET call == calls[c]
        tool == call.tool
        e == ProcessFailure(tool)
        text == IF tool = "download_subtitles" /\ ~metaOk
                THEN <<"Could not retrieve video metadata: ",
                       "Downloaded Subtitles:">>
                ELSE <<"Result of ", tool>>
    IN
    /\ \/ call.pc = "fetch" /\ tool # "download_subtitles" /\ metaOk
       \/ call.pc = "meta"
    /\ calls' = [calls EXCEPT ![c] =
                   IF usable
                   THEN Ended([@ EXCEPT !.swallowed = ~metaOk],
                              Dispatch(Returned(Response(text))), "success",
                              Undefined)
                   ELSE Ended([@ EXCEPT !.swallowed = ~metaOk],
                              HandlerFailure(tool, e), ExitOf(e), e)]
    /\ tmpDirs' = FinallyRimraf(tmpDirs, call.tmp)
    /\ files' = IF tool = "get_video_info" /\ usable
                THEN CacheSet(files, now, InfoKey,
                              JsObject("Some Title", 42), <<>>, w).files
                ELSE files
    /\ (tool # "get_video_info" \/ ~usable) => w = "written"
    /\ UNCHANGED <<now, lastOp>>
    /\ UNCHANGED <<retryVars, raceVars, infoVars, vttVars>>

NextTools ==
    \/ \E c \in Requests, name \in AdvertisedTools \cup {"no_such_tool"} :
          CallUnknownTool(c, name)
    \/ \E c \in Requests : CallCached(c)
    \/ \E c \in Requests, tool \in ToolNames,
          early \in {"", "mkdir", "mkdtemp", "time-range", "time-format"},
          range \in TimeRanges :
            CallTool(c, tool, early, range[1], range[2])
    \/ \E c \in Requests, e \in SpawnErrors \cup {YtDlpNotFound,
          YtDlpNotInstalled}
          \cup {ExhaustedError(DefaultMaxRetries, x) : x \in SpawnErrors} :
            AwaitRejects(c, e)
    \/ \E c \in Requests : CheckResolves(c)
    \/ \E c \in Requests : SubtitlesResolve(c)
    \/ \E c \in Requests, usable \in BOOLEAN, metaOk \in BOOLEAN,
          w \in WriteOutcomes : Complete(c, usable, metaOk, w)

(***************************************************************************)
(* get_video_info requests handled one after the other, with the clock     *)
(* running (src/unnamed/part_000, lines 527-651).  A request is handled    *)
(* in one step: the look-up in the cache, the run of the external tool on  *)
(* a miss, and the write of the result to the cache.                       *)
(***************************************************************************)
\* args.url: the last two differ in one character outside [a-zA-Z0-9_-]
Urls == {<<"b">>, <<"a", "?", "b">>, <<"a", "&", "b">>}

\* line 532: `video_info:${url}`
cacheKey(url) == <<"v", ":">> \o url

\* lines 588-600: info, with the title the tool prints for url and the
\* view count it prints in this run
VideoInfo(url, views) ==
    JsObject(CASE url = <<"b">> -> "Title of b"
               [] url = <<"a", "?", "b">> -> "Title of a?b"
               [] url = <<"a", "&", "b">> -> "Title of a&b",
             views)

\* History: the get_video_info call that ended last at the present time:
\* its url (<<>> if there is none), whether the external tool was run,
\* whether the response is an error response, the video information in
\* the response.
InfoCall(url, invoked, isError, info) ==
    [url |-> url, invoked |-> invoked, isError |-> isError, info |-> info]

\* fetched[url] is <<>> or holds the run of the external tool that
\* produced info for url last: the time, the information, and whether the
\* write of cache.set completed.
InitInfo ==
    /\ fetched = [url \in Urls |-> <<>>]
    /\ lastInfo = InfoCall(<<>>, FALSE, FALSE, JsUndefined)

\* lines 527-651: one call of handleGetVideoInfo({url}).  ok says whether
\* the external tool delivers output that parses (lines 549-586); views is
\* the view count it reports; w is how the write of cache.set ends.  The
\* cached value is an object or null, so `if (cached)` (line 534) tests
\* for the object.
GetVideoInfo(url, ok, views, w) ==
    LET got == CacheGet(files, now, cacheKey(url))
        info == VideoInfo(url, views)
    IN
    IF got.result.t = "object"
    THEN \* lines 534-543: answered from the cache
         /\ ok /\ views = 42 /\ w = "written"
         /\ lastInfo' = InfoCall(url, FALSE, FALSE, got.result)
         /\ files' = got.files
         /\ UNCHANGED <<fetched, now, lastOp>>
         /\ UNCHANGED <<retryVars, raceVars, toolVars, vttVars>>
    ELSE IF ok
    THEN \* lines 545-623: the tool runs, line 603 stores the result
         /\ lastInfo' = InfoCall(url, TRUE, FALSE, info)
         /\ files' = CacheSet(got.files, now, cacheKey(url), info, <<>>,
                              w).files
         /\ fetched' = [fetched EXCEPT ![url] =
                          <<[at |-> now, info |-> info,
                             stored |-> w = "written"]>>]
         /\ UNCHANGED <<now, lastOp>>
         /\ UNCHANGED <<retryVars, raceVars, toolVars, vttVars>>
    ELSE \* lines 627-650: the tool fails, the catch block answers
         /\ views = 42 /\ w = "written"
         /\ lastInfo' = InfoCall(url, TRUE, TRUE, JsUndefined)
         /\ files' = got.files
         /\ UNCHANGED <<fetched, now, lastOp>>
         /\ UNCHANGED <<retryVars, raceVars, toolVars, vttVars>>

\* Time passes between two requests, a day at a time.
Later ==
    /\ now + DefaultTTL <= MaxInfoDays * DefaultTTL
    /\ now' = now + DefaultTTL
    /\ lastInfo' = InfoCall(<<>>, FALSE, FALSE, JsUndefined)
    /\ UNCHANGED <<files, lastOp, fetched>>
    /\ UNCHANGED <<retryVars, raceVars, toolVars, vttVars>>

NextInfo ==
    \/ \E url \in Urls, ok \in BOOLEAN, views \in {42, 43},
          w \in WriteOutcomes : GetVideoInfo(url, ok, views, w)
    \/ Later

(***************************************************************************)
(* stripVttNonContent (src/unnamed/part_000, lines 1529-1616).  A string   *)
(* is a sequence of characters.  A run of characters that no test of the   *)
(* function looks into (a word, a timestamp of the form HH:MM:SS.mmm) is   *)
(* one element of the sequence; the characters the function's patterns are *)
(* made of ("<", ">", "/", "c", "-", the space, the line feed) are         *)
(* elements of their own.                                                  *)
(***************************************************************************)
LF == "\n"

\* the elements that match \d{2}:\d{2}:\d{2}\.\d{3}
Timestamps ==
    {"00:00:01.000", "00:00:02.000", "00:00:03.000", "00:00:04.000"}

\* the white space among the characters, for trim and for \s
IsWhiteSpace(c) == c \in {" ", LF}

\* String.prototype.includes for a word: an element of str has the word
\* in its text
Includes(str, word) ==
    \E i \in 1..Len(str) :
        \/ word = "WEBVTT" /\ str[i] = "WEBVTT"
        \/ word = "align:" /\ str[i] = "align:start"
        \/ word = "position:" /\ str[i] = "position:0%"

\* the characters of part stand in str from position i on
StartsAt(str, i, part) ==
    /\ i + Len(part) - 1 <= Len(str)
    /\ SubSeq(str, i, i + Len(part) - 1) = part

\* lines 1546, 1560, 1588: includes("-->")
Arrow == <<"-", "-", ">">>
IncludesArrow(str) == \E i \in 1..Len(str) : StartsAt(str, i, Arrow)

\* String.prototype.trim
RECURSIVE Trim(_)
Trim(str) ==
    IF str # <<>> /\ IsWhiteSpace(Head(str)) THEN Trim(Tail(str))
    ELSE IF str # <<>> /\ IsWhiteSpace(str[Len(str)])
         THEN Trim(SubSeq(str, 1, Len(str) - 1))
    ELSE str

\* line 1535: split("\n")
RECURSIVE Split(_)
Split(str) ==
    IF \A i \in 1..Len(str) : str[i] # LF THEN <<str>>
    ELSE LET i == CHOOSE k \in 1..Len(str) :
                      /\ str[k] = LF
                      /\ \A j \in 1..(k - 1) : str[j] # LF
         IN <<SubSeq(str, 1, i - 1)>> \o Split(SubSeq(str, i + 1, Len(str)))

\* lines 1579, 1614: join("\n")
RECURSIVE Join(_)
Join(lines) ==
    IF lines = <<>> THEN <<>>
    ELSE IF Len(lines) = 1 THEN lines[1]
    ELSE lines[1] \o <<LF>> \o Join(Tail(lines))

\* Array.prototype.push
PushUnlessRepeated(list, item) ==
    IF list # <<>> /\ list[Len(list)] = item THEN list
    ELSE Append(list, item)
Push(list, item) == Append(list, item)

\* lines 1569, 1598: replace(/<\d{2}:\d{2}:\d{2}\.\d{3}>|<\/c>/g, "") from
\* position i on.  The matches are found from left to right, each search
\* starting where the match before it ended, in one pass; n is the length
\* of the match at position i, 0 if there is none.
RECURSIVE RemoveCueTags(_, _)
RemoveCueTags(str, i) ==
    LET n == IF \E t \in Timestamps : StartsAt(str, i, <<"<", t, ">">>)
             THEN 3
             ELSE IF StartsAt(str, i, <<"<", "/", "c", ">">>) THEN 4
             ELSE 0
    IN
    IF i > Len(str) THEN <<>>
    ELSE IF n > 0 THEN RemoveCueTags(str, i + n)
    ELSE <<str[i]>> \o RemoveCueTags(str, i + 1)

\* lines 1570, 1599: replace(/<c>/g, "") from position i on, in one pass
RECURSIVE RemoveOpenTags(_, _)
RemoveOpenTags(str, i) ==
    IF i > Len(str) THEN <<>>
    ELSE IF StartsAt(str, i, <<"<", "c", ">">>)
         THEN RemoveOpenTags(str, i + 3)
    ELSE <<str[i]>> \o RemoveOpenTags(str, i + 1)

\* lines 1568-1570 and 1597-1599: the two replace calls
CleanLine(line) == RemoveOpenTags(RemoveCueTags(line, 1), 1)

\* \s*: the position of the first character from i on that \s does not
\* match
RECURSIVE SkipSpaces(_, _)
SkipSpaces(str, i) ==
    IF i <= Len(str) /\ IsWhiteSpace(str[i]) THEN SkipSpaces(str, i + 1)
    ELSE i

\* line 1562: line.match(...): the two groups of the leftmost match of
\* the timing pattern; <<>> stands for null.  At(i) is the match that
\* starts at position i, <<>> if none starts there.
timingMatch(line) ==
    LET At(i) ==
          IF line[i] \notin Timestamps THEN <<>>
          ELSE LET a == SkipSpaces(line, i + 1) IN
               IF ~StartsAt(line, a, Arrow) THEN <<>>
               ELSE LET b == SkipSpaces(line, a + Len(Arrow)) IN
                    IF b <= Len(line) /\ line[b] \in Timestamps
                    THEN <<line[i], line[b]>>
                    ELSE <<>>
        starts == { i \in 1..Len(line) : At(i) # <<>> }
    IN
    IF starts = {} THEN <<>>
    ELSE At(CHOOSE i \in starts : \A j \in starts : i <= j)

\* line 1564: `${timingMatch[1]} --> ${timingMatch[2]}`
TimingLine(m) == <<m[1], " ">> \o Arrow \o <<" ", m[2]>>

\* The outcome of a call that returns a string; threw is set where the
\* call ends with an exception.
VttReturns(str) == [threw |-> FALSE, value |-> str]

\* line 1536: the basic structure of a VTT document
AnyStructure(lines) == Len(lines) >= 2
IsVttStructure(lines) == Len(lines) >= 2 /\ Includes(lines[1], "WEBVTT")

\* line 1546: i + 1 < lines.length (i counted from 0)
NextLineAssumed(lines, i) == TRUE
NextLineInRange(lines, i) == i + 1 < Len(lines)

\* lines 1542-1550: the loop from index i on (counted from 0); index is
\* headerEndIndex when the loop ends.  lines[i + 1] past the end of the
\* array is undefined, and undefined.includes throws a TypeError.
RECURSIVE FindHeaderEnd(_, _)
FindHeaderEnd(lines, i) ==
    IF ~(i < Len(lines)) THEN [threw |-> FALSE, index |-> 1]
    ELSE IF Trim(lines[i + 1]) = <<>> /\ NextLineInRange(lines, i)
    THEN IF ~(i + 1 < Len(lines)) THEN [threw |-> TRUE, index |-> 1]
         ELSE IF IncludesArrow(lines[i + 2])
              THEN [threw |-> FALSE, index |-> i + 1]
         ELSE FindHeaderEnd(lines, i + 1)
    ELSE FindHeaderEnd(lines, i + 1)

\* lines 1557-1577: the loop of the preserve-timing mode from position i
\* on (counted from 1); the result is processedLines when the loop ends
RECURSIVE PreserveLoop(_, _, _)
PreserveLoop(contentLines, i, processedLines) ==
    IF i > Len(contentLines) THEN processedLines
    ELSE
      LET line == contentLines[i]
          cleanedLine == Trim(CleanLine(line))
      IN
      PreserveLoop(contentLines, i + 1,
        IF IncludesArrow(line)
        THEN IF timingMatch(line) # <<>>
             THEN Push(processedLines, TimingLine(timingMatch(line)))
             ELSE processedLines
        ELSE IF /\ Trim(line) # <<>>
                /\ ~Includes(line, "align:")
                /\ ~Includes(line, "position:")
        THEN IF cleanedLine # <<>>
             THEN Push(processedLines, cleanedLine)
             ELSE processedLines
        ELSE processedLines)

\* lines 1584-1604: the first loop of the discard-timing mode from
\* position i on (counted from 1); the result is textLines at its end
RECURSIVE DiscardLoop(_, _, _)
DiscardLoop(contentLines, i, textLines) ==
    IF i > Len(contentLines) THEN textLines
    ELSE
      LET line == contentLines[i]
          cleanedLine == CleanLine(line)
      IN
      DiscardLoop(contentLines, i + 1,
        IF IncludesArrow(line) THEN textLines
        ELSE IF Includes(line, "align:") \/ Includes(line, "position:")
        THEN textLines
        ELSE IF Trim(line) = <<>> THEN textLines
        ELSE IF Trim(cleanedLine) # <<>>
        THEN Push(textLines, Trim(cleanedLine))
        ELSE textLines)

\* line 1609: i === 0 || textLines[i] !== textLines[i - 1] (i from 1 here)
KeepsLineUnseen(textLines, i) ==
    \A j \in 1..(i - 1) : textLines[j] # textLines[i]
KeepsLine(textLines, i) == i = 1 \/ textLines[i] # textLines[i - 1]

\* lines 1607-1612: the second loop of the discard-timing mode
RECURSIVE UniqueLoop(_, _, _)
UniqueLoop(textLines, i, uniqueLines) ==
    IF i > Len(textLines) THEN uniqueLines
    ELSE UniqueLoop(textLines, i + 1,
                    IF KeepsLine(textLines, i)
                    THEN Push(uniqueLines, textLines[i])
                    ELSE uniqueLines)

\* lines 1529-1616; contentLines is lines.slice(headerEndIndex)
stripVttNonContent(content, preserve) ==
    IF content = <<>> \/ Trim(content) = <<>> THEN VttReturns(<<>>)
    ELSE
      LET lines == Split(content) IN
      IF ~IsVttStructure(lines) THEN VttReturns(<<>>)
      ELSE
        LET h == FindHeaderEnd(lines, 1) IN
        IF h.threw THEN [threw |-> TRUE, value |-> <<>>]
        ELSE
          LET contentLines == SubSeq(lines, h.index + 1, Len(lines)) IN
          IF preserve
          THEN VttReturns(Join(PreserveLoop(contentLines, 1, <<>>)))
          ELSE VttReturns(Join(UniqueLoop(
                   DiscardLoop(contentLines, 1, <<>>), 1, <<>>)))

\* A timing line of a document.
Cue(from, to, settings) == <<from, " ">> \o Arrow \o <<" ", to>> \o settings

\* The lines after the first line of a document: empty; a cue with
\* settings; a cue whose first timestamp lacks digits; two texts; a header
\* field; a text with inline tags and white space around it; a
\* positioning line; a line with a tag inside a tag and a tag inside an
\* arrow; a line that is a tag only.
BodyLines ==
    { <<>>,
      Cue("00:00:01.000", "00:00:02.000", <<" ", "align:start">>),
      <<"1:02">> \o Arrow \o <<"00:00:02.000">>,
      <<"Hello world">>,
      <<"Goodbye">>,
      <<"Kind: captions">>,
      <<" ", "<", "c", ">", "Hello world", "<", "/", "c", ">",
        "<", "00:00:01.000", ">", " ">>,
      <<"position:0%">>,
      <<"<", "<", "c", ">", "c", ">", "-", "<", "c", ">", "-", ">">>,
      <<"<", "c", ">">> }

\* the document of the specification's scenario
ScenarioDoc ==
    Join(<< <<"WEBVTT">>, <<"Kind: captions">>, <<"Language: en">>, <<>>,
            Cue("00:00:01.000", "00:00:02.000", <<>>), <<"Hello world">>,
            <<>>,
            Cue("00:00:02.000", "00:00:03.000", <<>>), <<"Hello world">>,
            <<>>,
            Cue("00:00:03.000", "00:00:04.000", <<>>), <<"Goodbye">> >>)

\* a document whose cue has no white space around the arrow, and whose
\* header field is followed by an empty line
TightDoc ==
    Join(<< <<"WEBVTT">>, <<"Kind: captions">>, <<>>,
            <<"00:00:01.000">> \o Arrow \o <<"00:00:02.000">>,
            <<"Hello world">>, <<"Hello world">> >>)

\* The documents handed to the function: a first line (the marker, the
\* empty line, a blank, a word) and up to MaxBodyLines lines after it.
Docs ==
    { Join(<<first>> \o body) :
        first \in { <<"WEBVTT">>, <<>>, <<" ">>, <<"Hello world">> },
        body \in UNION { [1..k -> BodyLines] : k \in 0..MaxBodyLines } }
    \cup {ScenarioDoc, TightDoc}

InitVtt ==
    /\ vttContent \in Docs
    /\ preserveTiming \in BOOLEAN
    /\ normalized = <<>>

\* no call of stripVttNonContent is made
InitVttIdle ==
    /\ vttContent = <<>>
    /\ preserveTiming = FALSE
    /\ normalized = <<>>

\* lines 1529-1616: the call stripVttNonContent(vttContent, preserveTiming)
\* lines 1342-1343: what handleDownloadSubtitles adds to the text of its
\* response for the subtitle file named file, cleanedContent being the
\* value stripVttNonContent(fileContent) returned
SubtitleSection(file, cleanedContent) ==
    <<file, LF, "====================", LF>> \o cleanedContent \o <<LF, LF>>

Normalize ==
    /\ normalized = <<>>
    /\ normalized' = <<stripVttNonContent(vttContent, preserveTiming)>>
    /\ UNCHANGED <<vttContent, preserveTiming>>
    /\ UNCHANGED <<retryVars, cacheVars, raceVars, toolVars, infoVars>>

\* No call of withRetry is running.
InitRetryIdle ==
    /\ maxRetries = DefaultMaxRetries
    /\ delay = DefaultDelay
    /\ pc = "start"
    /\ attempt = 0
    /\ lastError = Undefined
    /\ result = <<>>
    /\ thrown = Undefined
    /\ invocations = 0
    /\ outcomes = <<>>
    /\ waits = <<>>

\* The cache after construction; no call of withRetry is running.
InitCacheStore ==
    InitCache /\ InitRetryIdle /\ InitRace /\ InitTools /\ InitInfo
    /\ InitVttIdle

SpecCache == InitCacheStore /\ [][NextCache]_vars

NextRetry ==
    \/ Start
    \/ \E v \in OperationValues : OperationResolves(v)
    \/ \E e \in OperationErrors(invocations) : OperationRejects(e)
    \/ BackoffElapsed

\* One call of withRetry; the cache is not touched.
InitRetryCall ==
    InitRetry /\ InitCache /\ InitRace /\ InitTools /\ InitInfo
    /\ InitVttIdle

SpecRetry == InitRetryCall /\ [][NextRetry]_vars

\* One writing and two reading processes on one cache file; the clock
\* stands still.
InitRaceStore ==
    InitRace /\ InitCache /\ InitRetryIdle /\ InitTools /\ InitInfo
    /\ InitVttIdle

SpecRace == InitRaceStore /\ [][NextRace]_vars

\* The server after start-up: no request has arrived, the cache is empty.
InitServer ==
    InitTools /\ InitCache /\ InitRetryIdle /\ InitRace /\ InitInfo
    /\ InitVttIdle

SpecTools == InitServer /\ [][NextTools]_vars

\* get_video_info requests on an empty cache, from time 0 on.
InitInfoServer ==
    InitInfo /\ InitCache /\ InitRetryIdle /\ InitRace /\ InitTools
    /\ InitVttIdle

SpecInfo == InitInfoServer /\ [][NextInfo]_vars

\* One call of stripVttNonContent; nothing else runs.
InitNormalizer ==
    InitVtt /\ InitCache /\ InitRetryIdle /\ InitRace /\ InitTools
    /\ InitInfo

SpecVtt == InitNormalizer /\ [][Normalize]_vars

\* Every invocation of operation() completes and every backoff timer fires.
SpecRetryFair ==
    /\ SpecRetry
    /\ WF_vars(Start)
    /\ WF_vars(\E v \in OperationValues : OperationResolves(v))
    /\ WF_vars(\E e \in OperationErrors(invocations) : OperationRejects(e))
    /\ WF_vars(BackoffElapsed)

(***************************************************************************)
(* Properties of withRetry.                                                *)
(***************************************************************************)
Done == pc \in {"returned", "thrown"}
Failed(i) == ~outcomes[i].ok
\* the i-th invocation failed with a failure marked non-retryable
FailedNonRetryable(i) ==
    /\ Failed(i)
    /\ outcomes[i].error.cls = "YouTubeMCPError"
    /\ outcomes[i].error.retryable = FALSE
\* the i-th invocation failed with a failure marked retryable
FailedRetryable(i) ==
    /\ Failed(i)
    /\ outcomes[i].error.cls = "YouTubeMCPError"
    /\ outcomes[i].error.retryable = TRUE
\* the i-th invocation failed with a failure that carries no classification
FailedUnclassified(i) ==
    /\ Failed(i)
    /\ outcomes[i].error.cls = "Error"

RECURSIVE SumSeq(_)
SumSeq(s) == IF s = <<>> THEN 0 ELSE Head(s) + SumSeq(Tail(s))

\* 1 + 2 + ... + n
RECURSIVE SumTo(_)
SumTo(n) == IF n <= 0 THEN 0 ELSE n + SumTo(n - 1)

\* C1: one call of withRetry invokes operation at most maxRetries times,
\* whatever the outcomes of the invocations are.
C1_AtMostMaxAttempts == invocations <= maxRetries

C1_Witness ==
    /\ maxRetries = DefaultMaxRetries
    /\ invocations = maxRetries
    /\ pc = "thrown"

\* C2: a failure marked non-retryable is propagated at once, as the same
\* object, and operation is never invoked again: the call has ended with
\* exactly as many invocations as it took to meet that failure (one when the
\* first failure is non-retryable), whatever budget remains.
C2_NonRetryablePropagatedAtOnce ==
    \A i \in 1..Len(outcomes) :
        FailedNonRetryable(i) =>
            /\ pc = "thrown"
            /\ thrown = outcomes[i].error
            /\ result = <<>>
            /\ Len(outcomes) = i
            /\ invocations = i

C2_Witness ==
    /\ maxRetries = DefaultMaxRetries
    /\ Len(outcomes) = 1
    /\ FailedNonRetryable(1)
    /\ invocations = 1
    /\ pc = "thrown"

\* C3: when the j-th invocation succeeds after j-1 retryable failures, the
\* call returns exactly that value and operation was invoked exactly j
\* times: nothing is invoked after a success.
C3_SuccessReturnsAfterExactlyJ ==
    \A j \in 1..Len(outcomes) :
        (outcomes[j].ok /\ \A i \in 1..(j - 1) : Failed(i)) =>
            /\ j <= maxRetries
            /\ pc = "returned"
            /\ result = <<outcomes[j].value>>
            /\ thrown = Undefined
            /\ Len(outcomes) = j
            /\ invocations = j

C3_Witness ==
    /\ maxRetries = DefaultMaxRetries
    /\ Len(outcomes) = 3
    /\ FailedRetryable(1)
    /\ FailedRetryable(2)
    /\ outcomes[3].ok
    /\ pc = "returned"
    /\ invocations = 3

\* C4: a failure without classification met while attempts remain is not
\* propagated: the backoff wait is started and, once it is over, operation
\* is invoked again.
C4_UnclassifiedIsRetried ==
    \A i \in 1..Len(outcomes) :
        (FailedUnclassified(i) /\ i < maxRetries) =>
            /\ thrown # outcomes[i].error
            /\ Len(waits) >= i
            /\ \/ pc = "waiting" /\ Len(outcomes) = i /\ invocations = i
               \/ invocations > i

C4_Witness ==
    /\ Len(outcomes) = 1
    /\ FailedUnclassified(1)
    /\ pc = "calling"
    /\ invocations = 2

\* the failure withRetry throws is the exhaustion wrapper of failure e
IsExhaustionWrapperOf(t, e) ==
    /\ t.cls = "YouTubeMCPError"
    /\ t.code = "UNKNOWN_ERROR"
    /\ t.retryable = FALSE
    /\ t.id = 0
    /\ Len(t.message) = 3 + Len(e.message)
    /\ t.message[2] = ToString(maxRetries)
    /\ SubSeq(t.message, 4, Len(t.message)) = e.message
    /\ t.originalError = <<e>>

\* C5 as stated: whenever the final (maxRetries-th) attempt fails, the
\* failure propagated is a new UNKNOWN_ERROR failure with retryable = false
\* carrying the attempt count and the last failure's message and referencing
\* the last failure as its original error.
C5_FinalFailureAlwaysWrapped ==
    (maxRetries >= 1 /\ Len(outcomes) = maxRetries /\ Failed(maxRetries)) =>
        /\ pc = "thrown"
        /\ IsExhaustionWrapperOf(thrown, outcomes[maxRetries].error)

\* C5 amended: whenever the final attempt fails with a failure that is not
\* marked non-retryable (retryable or unclassified), the failure propagated
\* is that wrapper; a non-retryable final failure is propagated as it is.
C5_FinalRetryableFailureWrapped ==
    (maxRetries >= 1 /\ Len(outcomes) = maxRetries /\ Failed(maxRetries)) =>
        /\ pc = "thrown"
        /\ IF FailedNonRetryable(maxRetries)
           THEN thrown = outcomes[maxRetries].error
           ELSE IsExhaustionWrapperOf(thrown, outcomes[maxRetries].error)

C5_Witness ==
    /\ maxRetries = DefaultMaxRetries
    /\ Len(outcomes) = 3
    /\ FailedRetryable(1)
    /\ FailedUnclassified(2)
    /\ FailedRetryable(3)
    /\ pc = "thrown"
    /\ thrown.id = 0

\* C6: the wait after failed attempt n is exactly delay * n; no wait follows
\* the last attempt, a non-retryable failure or a success; so the total wait
\* of a call is at most delay * (1 + 2 + ... + (maxRetries - 1)).
C6_LinearBackoff ==
    /\ \A n \in 1..Len(waits) : waits[n] = delay * n /\ Failed(n)
    /\ Len(waits) <= IF maxRetries >= 1 THEN maxRetries - 1 ELSE 0
    /\ (pc \in {"calling", "waiting"}) => Len(waits) = Len(outcomes)
    /\ (Done /\ outcomes # <<>>) => Len(waits) = Len(outcomes) - 1
    /\ SumSeq(waits) <= delay * SumTo(maxRetries - 1)

C6_Witness ==
    /\ delay = DefaultDelay
    /\ maxRetries = DefaultMaxRetries
    /\ waits = <<1000, 2000>>
    /\ pc = "thrown"

\* C7: if every invocation completes and every backoff timer fires, every
\* call of withRetry ends, by returning or by throwing.
C7_Terminates == <>Done

C7_Witness ==
    /\ Done
    /\ Len(waits) = 2
    /\ invocations = 3

(***************************************************************************)
(* Properties of SimpleCache.                                              *)
(***************************************************************************)
\* C8 as stated: set(k, v, ttl) whose write completed, followed at once by
\* get(k), returns v, for every key, every JSON-serializable v and every ttl.
C8_SetThenGetReturnsValue ==
    [][ ( /\ lastOp.op = "set"
          /\ lastOp.wrote = "written"
          /\ IsJsonValue(lastOp.data)
          /\ lastOp'.op = "get"
          /\ lastOp'.key = lastOp.key )
        => ( /\ ~lastOp'.raised
             /\ lastOp'.result = lastOp.data ) ]_vars

\* C9: a get(k) at a time now > expiresAt of the stored entry returns null
\* and removes the entry's file, so that the file no longer exists and a
\* cleanup sweep that follows finds nothing to remove for that key.
C9_ExpiredGetRemovesEntry ==
    [][ \A k \in CacheKeys :
          ( /\ lastOp'.op = "get"
            /\ lastOp'.key = k
            /\ getCacheFile(k) \in DOMAIN files
            /\ files[getCacheFile(k)].parses
            /\ now > files[getCacheFile(k)].expiresAt )
          => ( /\ lastOp'.result = JsNull
               /\ ~lastOp'.raised
               /\ getCacheFile(k) \notin DOMAIN files'
               /\ getCacheFile(k) \notin CleanupRemoves(files', now') ) ]_vars

C9_Witness ==
    /\ lastOp.op = "get"
    /\ lastOp.path = "expired"
    /\ lastOp.result = JsNull
    /\ now >= DefaultTTL
    /\ getCacheFile(lastOp.key) \notin DOMAIN files

\* C10: get never raises and returns a stored value or null: null when the
\* key has no file; null, with the file removed, when the file's text does
\* not parse.
C10_GetNeverRaises ==
    [][ \A k \in CacheKeys :
          (lastOp'.op = "get" /\ lastOp'.key = k) =>
            LET f == getCacheFile(k) IN
            /\ ~lastOp'.raised
            /\ (f \notin DOMAIN files) =>
                   (lastOp'.result = JsNull /\ files' = files)
            /\ (f \in DOMAIN files /\ ~files[f].parses) =>
                   (lastOp'.result = JsNull /\ f \notin DOMAIN files')
            /\ \/ lastOp'.result = JsNull
               \/ /\ f \in DOMAIN files
                  /\ files[f].parses
                  /\ files[f].hasData
                  /\ lastOp'.result = files[f].data ]_vars

C10_Witness ==
    /\ lastOp.op = "get"
    /\ lastOp.path = "corrupt"
    /\ lastOp.result = JsNull
    /\ ~lastOp.raised
    /\ getCacheFile(lastOp.key) \notin DOMAIN files

\* the time-to-live the statement of C11 gives a call of set: the ttl passed,
\* 24 hours when none is passed (a ttl of 0 is read as none)
C11_StatedTtl(ttl) ==
    IF ttl = <<>> \/ ttl[1] = 0 THEN 24 * 60 * 60 * 1000 ELSE ttl[1]

\* C11 as stated: the entry a set has just written has createdAt = now and
\* expiresAt = now + ttl (24 hours when ttl is omitted), and every stored
\* entry has expiresAt > createdAt, for every ttl a caller can pass.
C11_EntriesExpireAfterCreation ==
    /\ (lastOp.op = "set" /\ lastOp.wrote = "written") =>
           LET f == getCacheFile(lastOp.key) IN
           /\ f \in DOMAIN files
           /\ files[f].parses
           /\ files[f].timestamp = now
           /\ files[f].expiresAt = now + C11_StatedTtl(lastOp.ttl)
    /\ \A f \in DOMAIN files :
           files[f].parses => files[f].expiresAt > files[f].timestamp

\* C12: the store holds at most one entry per cache file.  A set(k2, v2)
\* whose write completed replaces the whole entry of k2's file (value,
\* createdAt and expiresAt all come from this call) and touches no other
\* file; every key k1 with the same file then reads the same entry as k2,
\* and that is v2 when v2 is a JSON value and the ttl is not negative.  So
\* after set(k1, v1) then set(k2, v2) on colliding keys a single entry is
\* left, and get(k1) and get(k2) both return v2.
C12_OneEntryPerCacheFile ==
    [][ \A k2 \in CacheKeys :
          ( /\ lastOp'.op = "set"
            /\ lastOp'.key = k2
            /\ lastOp'.wrote = "written" )
          => LET f == getCacheFile(k2)
                 v2 == lastOp'.data
                 live == lastOp'.ttl = <<>> \/ lastOp'.ttl[1] >= 0
             IN
             /\ DOMAIN files' = (DOMAIN files) \cup {f}
             /\ \A g \in (DOMAIN files') \ {f} : files'[g] = files[g]
             /\ files'[f].parses
             /\ files'[f].timestamp = now'
             /\ files'[f].expiresAt = now' + C11_StatedTtl(lastOp'.ttl)
             /\ IsJsonValue(v2) => (files'[f].hasData /\ files'[f].data = v2)
             /\ \A k1 \in CacheKeys :
                  getCacheFile(k1) = f =>
                    /\ CacheGet(files', now', k1).result
                           = CacheGet(files', now', k2).result
                    /\ (IsJsonValue(v2) /\ live) =>
                           /\ CacheGet(files', now', k1).result = v2
                           /\ CacheGet(files', now', k1).path = "hit"
                           /\ CacheGet(files', now', k1).files = files' ]_vars

\* set('v:a', v1) then set('v_a', v2): one file, and get('v:a') reads v2
C12_Witness ==
    /\ lastOp.op = "set"
    /\ lastOp.wrote = "written"
    /\ lastOp.path = "collision"
    /\ lastOp.key = <<"v", "_", "a">>
    /\ lastOp.ttl = <<>>
    /\ lastOp.data = JsObject("Some Title", 42)
    /\ DOMAIN files = {getCacheFile(<<"v", ":", "a">>)}
    /\ CacheGet(files, now, <<"v", ":", "a">>).result = lastOp.data

\* C13: set never propagates a failure.  Whether line 204 completes, throws
\* before the file is touched (serializing or opening fails) or throws
\* after truncating the file, set returns normally; a failure that left the
\* file untouched leaves the whole directory as it was, and a failure never
\* touches the file of another key.
C13_SetNeverRaises ==
    [][ \A k \in CacheKeys :
          (lastOp'.op = "set" /\ lastOp'.key = k) =>
            /\ ~lastOp'.raised
            /\ lastOp'.result = JsUndefined
            /\ lastOp'.wrote = "refused" => files' = files
            /\ \A g \in (DOMAIN files) \ {getCacheFile(k)} :
                   g \in DOMAIN files' /\ files'[g] = files[g] ]_vars

\* a set whose write failed part-way has returned normally
C13_Witness ==
    /\ lastOp.op = "set"
    /\ lastOp.wrote = "truncated"
    /\ ~lastOp.raised
    /\ getCacheFile(lastOp.key) \in DOMAIN files
    /\ ~files[getCacheFile(lastOp.key)].parses

C17_NoPartialEntryRead ==
    \A r \in Readers :
        /\ (readers[r].pc = "read" /\ JsonAccepts(readers[r].snap)) =>
             /\ ~readers[r].partial
             /\ \E v \in RaceData :
                  readers[r].snap =
                      StringifyText([data |-> v, timestamp |-> now,
                                     expiresAt |-> now + DefaultTTL])
        /\ readers[r].pc = "done" =>
             /\ readers[r].partial => readers[r].result = JsNull
             /\ readers[r].result # JsNull =>
                  (readers[r].result \in RaceData /\ readers[r].path = "hit")

\* a get has read a text cut after the complete value of data, while the
\* writer was still writing, and has returned null
C17_Witness ==
    \E r \in Readers :
        /\ readers[r].pc = "done"
        /\ readers[r].partial
        /\ readers[r].sawData
        /\ readers[r].result = JsNull
        /\ readers[r].path = "corrupt"
        /\ writer.pc = "writing"
        /\ writer.data = JsObject("Some Title", 42)

(***************************************************************************)
(* Properties of the call-tool request handler and the tool handlers.      *)
(***************************************************************************)
\* C18 as stated: tool invocations are never interleaved: at any moment at
\* most one tool call is between its start and its completion.
C18_AtMostOneCallInFlight == Cardinality(InFlight) <= 1

\* C19: for every tool name, known or unknown, and every failure that ends
\* a handler, the call-tool handler does not throw: the client receives a
\* response with isError set whose text is "Error: " followed by the
\* failure's message; a call that met no such failure receives a response
\* with text and without the flag.
C19_FailuresBecomeErrorResponses ==
    \A c \in Requests :
        calls[c].pc = "done" =>
            LET r == calls[c].response IN
            /\ ~calls[c].threw
            /\ r.present
            /\ r.text # <<>>
            /\ r.isError <=> (calls[c].failure # Undefined)
            /\ r.isError <=> (calls[c].exit \notin {"success", "cached"})
            /\ r.isError => (Len(r.text) >= 2 /\ r.text[1] = "Error: ")

\* handleDownloadVideoMetadata, which has no catch block, has thrown a plain
\* Error and the client has received an error response
C19_Witness ==
    \E c \in Requests :
        /\ calls[c].pc = "done"
        /\ calls[c].tool = "download_video_metadata"
        /\ calls[c].exit = "unclassified"
        /\ calls[c].failure = YtDlpNotInstalled
        /\ ~calls[c].threw
        /\ calls[c].response = ErrorResponse(YtDlpNotInstalled)

\* C20: every temporary directory a handler created is removed by the time
\* the handler returns, on every exit path (success, classified failure,
\* unclassified failure, retry exhaustion): the directories that exist are
\* those of the calls that have not returned yet.
C20_TempDirRemovedOnReturn ==
    /\ \A c \in Requests :
           calls[c].pc = "done" => (c \notin tmpDirs /\ calls[c].tmp = 0)
    /\ \A d \in tmpDirs : d \in InFlight /\ calls[d].tmp = d
    /\ \A c \in InFlight : calls[c].tmp = c /\ c \in tmpDirs

\* a call that ended by retry exhaustion and a call that ended by an
\* unclassified failure have both created a directory, and none is left
C20_Witness ==
    /\ tmpDirs = {}
    /\ \E c, d \in Requests :
           /\ calls[c].pc = "done"
           /\ calls[c].exit = "exhausted"
           /\ calls[c].created = c
           /\ calls[d].pc = "done"
           /\ calls[d].exit = "unclassified"
           /\ calls[d].created = d

(***************************************************************************)
(* Properties of get_video_info and its cache entries.                     *)
(***************************************************************************)
\* a call of get_video_info for url ends in this step
C21_CallEnds(url) == now' = now /\ lastInfo'.url = url
\* the tool has produced information for url, at most 24 hours ago
C21_FetchedWithinADay(url) ==
    fetched[url] # <<>> /\ now <= fetched[url][1].at + DefaultTTL
\* the call that ends is answered with info, and the tool was not run
C21_AnsweredFromCache(info) ==
    ~lastInfo'.invoked /\ ~lastInfo'.isError /\ lastInfo'.info = info

VttDone == normalized # <<>>
\* the lines of a string, the empty string having none
LinesOf(str) == IF str = <<>> THEN <<>> ELSE Split(str)
\* the characters of the document before its first line feed
FirstLineOf(str) ==
    SubSeq(str, 1,
           Cardinality({ i \in 1..Len(str) :
                           \A j \in 1..i : str[j] # LF }))
\* the document is empty or consists of white space
IsBlankDocument(str) == \A i \in 1..Len(str) : str[i] \in {" ", LF}
\* the first line has the marker
HasMarker(str) ==
    \E i \in 1..Len(FirstLineOf(str)) : FirstLineOf(str)[i] = "WEBVTT"

\* C22: for a document whose first line does not contain WEBVTT, and for
\* an empty or white-space-only document, stripVttNonContent returns the
\* empty string, in either mode.
C22_NoMarkerYieldsEmpty ==
    (VttDone /\ (IsBlankDocument(vttContent) \/ ~HasMarker(vttContent)))
    => normalized[1] = VttReturns(<<>>)

\* a document without the marker whose later lines hold a cue and a text
C22_Witness ==
    /\ VttDone
    /\ ~HasMarker(vttContent)
    /\ ~IsBlankDocument(vttContent)
    /\ IncludesArrow(vttContent)
    /\ \E i \in 1..Len(vttContent) : vttContent[i] = "Goodbye"
    /\ normalized[1] = VttReturns(<<>>)

\* the value returned
VttOut == normalized[1].value
\* the lines of the document that follow the header the function skipped
ContentLinesOf(str) ==
    SubSeq(Split(str), FindHeaderEnd(Split(str), 1).index + 1,
           Len(Split(str)))
\* the string has an inline timestamp tag, a <c> tag or a </c> tag
HasTag(str) ==
    \E i \in 1..Len(str) :
        \/ StartsAt(str, i, <<"<", "c", ">">>)
        \/ StartsAt(str, i, <<"<", "/", "c", ">">>)
        \/ \E t \in Timestamps : StartsAt(str, i, <<"<", t, ">">>)
\* the line is a timing line in the form the function writes
IsTimingShape(line) ==
    \E a \in Timestamps, b \in Timestamps :
        line = <<a, " ", "-", "-", ">", " ", b>>

\* C23: the output of the discard-timing mode has no two identical
\* adjacent lines and no line containing "-->", "align:" or "position:".
C23_DiscardOutputClean ==
    (VttDone /\ ~preserveTiming) =>
      LET out == LinesOf(VttOut) IN
      /\ \A i \in 2..Len(out) : out[i] # out[i - 1]
      /\ \A i \in 1..Len(out) :
           /\ ~IncludesArrow(out[i])
           /\ ~Includes(out[i], "align:")
           /\ ~Includes(out[i], "position:")

\* the line holds "-->" and the timing pattern matches in it
C24_Matches(line) == IncludesArrow(line) /\ timingMatch(line) # <<>>

\* C24: in the preserve-timing mode the output lines containing "-->" are,
\* in order, the lines "HH:MM:SS.mmm --> HH:MM:SS.mmm" made of the two
\* timestamps matched in the input lines containing "-->"; an input line
\* with "-->" that does not match adds nothing, and no output line with
\* "-->" has another shape.
C24_ArrowOnlyInTimingLines ==
    (VttDone /\ preserveTiming /\ HasMarker(vttContent)
       /\ Len(Split(vttContent)) >= 2) =>
      LET out == SelectSeq(LinesOf(VttOut), IncludesArrow)
          src == SelectSeq(ContentLinesOf(vttContent), C24_Matches)
      IN
      /\ \A i \in 1..Len(out) : IsTimingShape(out[i])
      /\ out = [i \in 1..Len(src) |-> TimingLine(timingMatch(src[i]))]

\* the result wrapped again as a document: the marker, an empty line, and
\* the lines of the result
C25_Wrap(str) == <<"WEBVTT", LF, LF>> \o str

\* C25: normalizing, in the discard-timing mode, the result of the
\* discard-timing mode wrapped again as a document yields that result.
C25_DiscardIdempotent ==
    (VttDone /\ ~preserveTiming) =>
      stripVttNonContent(C25_Wrap(VttOut), FALSE) = VttReturns(VttOut)

\* the document has the marker in its first line and a line after it
IsCaptionDocument(str) ==
    HasMarker(str) /\ \E i \in 1..Len(str) : str[i] = LF
\* an empty line that a line containing "-->" follows
IsHeaderEnd(lines, i) ==
    /\ i \in 2..(Len(lines) - 1)
    /\ \A k \in 1..Len(lines[i]) : lines[i][k] = " "
    /\ IncludesArrow(lines[i + 1])
\* the number of lines skipped as the header: the lines up to the first
\* such empty line, or the first line alone if there is none
SkippedLines(lines) ==
    IF \E i \in 1..Len(lines) : IsHeaderEnd(lines, i)
    THEN CHOOSE i \in 1..Len(lines) :
             /\ IsHeaderEnd(lines, i)
             /\ \A j \in 1..(i - 1) : ~IsHeaderEnd(lines, j)
    ELSE 1
\* the lines after those skipped
BodyOf(str) ==
    SubSeq(Split(str), SkippedLines(Split(str)) + 1, Len(Split(str)))
\* a line that is neither a timing line nor a positioning line
IsTextLine(line) ==
    /\ ~IncludesArrow(line)
    /\ ~Includes(line, "align:")
    /\ ~Includes(line, "position:")
IsNonEmpty(line) == line # <<>>
\* the cleaned, trimmed texts of the text lines, the empty ones left out
CleanedTexts(lines) ==
    LET texts == SelectSeq(lines, IsTextLine) IN
    SelectSeq([i \in 1..Len(texts) |-> Trim(CleanLine(texts[i]))],
              IsNonEmpty)
\* every maximal run of identical consecutive lines reduced to one line
RECURSIVE Collapse(_)
Collapse(lines) ==
    IF Len(lines) <= 1 THEN lines
    ELSE IF lines[1] = lines[2] THEN Collapse(Tail(lines))
    ELSE <<lines[1]>> \o Collapse(Tail(lines))

\* C26: the output of the discard-timing mode is the sequence, in input
\* order, of the cleaned, trimmed, non-empty content lines with every
\* maximal run of identical consecutive lines reduced to one line, joined
\* by line feeds; the scenario document yields "Hello world", "Goodbye".
C26_DiscardCollapsesRuns ==
    (VttDone /\ ~preserveTiming /\ IsCaptionDocument(vttContent)) =>
      /\ normalized[1] =
           VttReturns(Join(Collapse(CleanedTexts(BodyOf(vttContent)))))
      /\ vttContent = ScenarioDoc
           => VttOut = <<"Hello world", LF, "Goodbye">>

\* a text recurs after a different line, once with tags around it, and
\* both occurrences are in the output
C26_Witness ==
    /\ VttDone
    /\ ~preserveTiming
    /\ IsCaptionDocument(vttContent)
    /\ HasTag(vttContent)
    /\ LinesOf(VttOut) =
         << <<"Hello world">>, <<"Goodbye">>, <<"Hello world">> >>

\* what one line adds to the output of the preserve-timing mode: its
\* reformatted timing, its cleaned and trimmed text, or nothing
EmittedFor(line) ==
    IF IncludesArrow(line)
    THEN IF timingMatch(line) # <<>>
         THEN << TimingLine(timingMatch(line)) >>
         ELSE <<>>
    ELSE IF IsTextLine(line) /\ Trim(CleanLine(line)) # <<>>
         THEN << Trim(CleanLine(line)) >>
    ELSE <<>>
RECURSIVE EmittedForAll(_)
EmittedForAll(lines) ==
    IF lines = <<>> THEN <<>>
    ELSE EmittedFor(Head(lines)) \o EmittedForAll(Tail(lines))

\* C27: the preserve-timing mode suppresses no repetition: every content
\* line that is non-empty after cleaning is in the output, in input order,
\* also when it equals the content line emitted before it; the scenario
\* document yields three pairs of a timing line and a text, "Hello world"
\* twice.
C27_PreserveKeepsRepetitions ==
    (VttDone /\ preserveTiming /\ IsCaptionDocument(vttContent)) =>
      /\ normalized[1] = VttReturns(Join(EmittedForAll(BodyOf(vttContent))))
      /\ vttContent = ScenarioDoc
           => LinesOf(VttOut) =
                << Cue("00:00:01.000", "00:00:02.000", <<>>),
                   <<"Hello world">>,
                   Cue("00:00:02.000", "00:00:03.000", <<>>),
                   <<"Hello world">>,
                   Cue("00:00:03.000", "00:00:04.000", <<>>),
                   <<"Goodbye">> >>

\* two identical texts in a row are both in the output
C27_Witness ==
    /\ VttDone
    /\ preserveTiming
    /\ vttContent = TightDoc
    /\ LinesOf(VttOut) =
         << Cue("00:00:01.000", "00:00:02.000", <<>>), <<"Hello world">>,
            <<"Hello world">> >>

\* what the lines add to the output in the given mode
OutputFor(lines, preserve) ==
    IF preserve THEN Join(EmittedForAll(lines))
    ELSE Join(Collapse(CleanedTexts(lines)))
\* the first line containing "-->", if there is one
HasCue(lines) == \E i \in 1..Len(lines) : IncludesArrow(lines[i])
FirstCue(lines) ==
    CHOOSE i \in 1..Len(lines) :
        /\ IncludesArrow(lines[i])
        /\ \A j \in 1..(i - 1) : ~IncludesArrow(lines[j])
\* the lines before the first cue are the marker line, header fields and
\* empty lines
C28_HeaderBeforeCue(lines) ==
    /\ HasCue(lines)
    /\ FirstCue(lines) > 1
    /\ \A j \in 2..(FirstCue(lines) - 1) :
           lines[j] \in {<<"Kind: captions">>, <<"Language: en">>, <<>>}

\* C28: for a document with the marker and a timing line, in
\* either mode, the marker line and the header fields before the first
\* timing line add nothing to the output.
C28_HeaderNeverEmitted ==
    (VttDone /\ IsCaptionDocument(vttContent)
       /\ C28_HeaderBeforeCue(Split(vttContent))) =>
      LET lines == Split(vttContent) IN
      normalized[1] =
        VttReturns(OutputFor(SubSeq(lines, FirstCue(lines), Len(lines)),
                             preserveTiming))

\* C29: for every input string and either mode the call of
\* stripVttNonContent returns a string; it never throws.
C29_NeverThrows ==
    VttDone =>
      /\ ~normalized[1].threw
      /\ VttOut \in Seq({VttOut[i] : i \in 1..Len(VttOut)})

\* the document has the marker and ends with an empty line, the line
\* after which the header loop must not look at
C29_Witness ==
    /\ VttDone
    /\ IsCaptionDocument(vttContent)
    /\ vttContent[Len(vttContent)] = LF
    /\ ~normalized[1].threw

\* C30: in either mode no line of the output has an inline timestamp tag
\* <HH:MM:SS.mmm>, a <c> tag or a </c> tag.
C30_NoTagInOutput ==
    VttDone => \A i \in 1..Len(LinesOf(VttOut)) : ~HasTag(LinesOf(VttOut)[i])

(***************************************************************************)
(* Properties of the failures the handlers construct.                      *)
(***************************************************************************)
\* the codes of the kinds ToolNotFound, TargetNotFound, InvalidInput,
\* PermissionDenied and CaptionsUnavailable of the failure taxonomy
NonRetryableCodes ==
    {"YT_DLP_NOT_FOUND", "VIDEO_NOT_FOUND", "INVALID_URL",
     "PERMISSION_DENIED", "SUBTITLES_NOT_AVAILABLE"}
\* the codes of the kinds NetworkError and FormatUnavailable
RetryableCodes == {"NETWORK_ERROR", "FORMAT_NOT_AVAILABLE"}

\* the flag of failure e is the one the taxonomy gives to its kind
FlagFollowsTaxonomy(e) ==
    /\ e.code \in NonRetryableCodes => ~e.retryable
    /\ e.code \in RetryableCodes => e.retryable

\* C31: every failure the program constructs carries the retryable flag
\* that the failure taxonomy assigns to its kind: a failure that ended a
\* call, and the classification handleYtDlpError gives to an unclassified
\* one, is non-retryable when its kind is ToolNotFound, TargetNotFound,
\* InvalidInput, PermissionDenied or CaptionsUnavailable, and retryable
\* when its kind is NetworkError or FormatUnavailable.
C31_FlagsFollowTaxonomy ==
    \A c \in Requests :
        LET e == calls[c].failure IN
        /\ e.cls = "YouTubeMCPError" => FlagFollowsTaxonomy(e)
        /\ e.cls = "Error" => FlagFollowsTaxonomy(handleYtDlpError(e))

\* the i-th invocation of the operation failed because the url does not
\* resolve to content: the failure is, or is classified by handleYtDlpError
\* as, a VIDEO_NOT_FOUND failure
IsTargetNotFound(i) ==
    /\ Failed(i)
    /\ LET e == outcomes[i].error IN
       (IF e.cls = "Error" THEN handleYtDlpError(e) ELSE e).code
           = ErrorCodes.VIDEO_NOT_FOUND

\* C32: when the external tool fails because the source url does not
\* resolve to content (a TargetNotFound failure), the retry-wrapped
\* invocation is performed exactly once: the failure leaves withRetry on
\* its first occurrence and the operation is not invoked again.
C32_TargetNotFoundInvokedOnce ==
    \A i \in 1..Len(outcomes) :
        IsTargetNotFound(i) => invocations = i /\ pc = "thrown"

(***************************************************************************)
(* Properties of the subtitle files download_subtitles reads.              *)
(***************************************************************************)
\* C33: a downloaded caption file that is not in the WebVTT-like cue
\* format (its first line lacks WEBVTT) passes through unmodified: the
\* section of the response made from what stripVttNonContent(fileContent)
\* returned holds the text of the file unchanged.
C33_OtherFormatsPassThrough ==
    (VttDone /\ ~preserveTiming /\ ~HasMarker(vttContent))
    => SubtitleSection("a.srt", VttOut) = SubtitleSection("a.srt", vttContent)

\* what the lines add to an output in which a text is emitted only after
\* the emitted timing line of its cue: inCue says whether the timing line
\* met last was emitted
RECURSIVE EmittedInCues(_, _)
EmittedInCues(lines, inCue) ==
    IF lines = <<>> THEN <<>>
    ELSE IF IncludesArrow(Head(lines))
    THEN EmittedFor(Head(lines))
         \o EmittedInCues(Tail(lines), EmittedFor(Head(lines)) # <<>>)
    ELSE (IF inCue THEN EmittedFor(Head(lines)) ELSE <<>>)
         \o EmittedInCues(Tail(lines), inCue)

\* C34: in preserve-timing mode every emitted content line is preceded in
\* the output by the emitted timing line of the cue it belongs to: the
\* output holds no content line of a cue whose timing line was dropped as
\* malformed.
C34_ContentFollowsItsTimingLine ==
    (VttDone /\ preserveTiming /\ IsCaptionDocument(vttContent))
    => LinesOf(VttOut) = EmittedInCues(BodyOf(vttContent), FALSE)

(***************************************************************************)
(* Properties of the failures that leave withRetry.                        *)
(***************************************************************************)
\* C35: for every maxRetries >= 1 a failure that leaves withRetry is a
\* YouTubeMCPError with retryable = false, the failure of the operation
\* itself or the exhaustion wrapper; an enclosing withRetry would
\* therefore not retry it, and the catch block of a handler answers with
\* its message without handing it to handleYtDlpError.
C35_LeavesAsNonRetryable ==
    (pc = "thrown" /\ maxRetries >= 1) =>
      /\ thrown.cls = "YouTubeMCPError"
      /\ ~thrown.retryable
      /\ \/ thrown = lastError
         \/ thrown = ExhaustedError(maxRetries, lastError)
      /\ IsNonRetryable(thrown)
      /\ HandlerCatch(thrown) = Returned(ErrorResponse(thrown))

\* the third attempt of three failed with an unclassified failure that
\* handleYtDlpError would classify as VIDEO_NOT_FOUND; the wrapper left
\* withRetry and the handler answers with the wrapper's message
C35_Witness ==
    /\ pc = "thrown"
    /\ maxRetries = 3
    /\ invocations = 3
    /\ lastError.cls = "Error"
    /\ handleYtDlpError(lastError).code = ErrorCodes.VIDEO_NOT_FOUND
    /\ thrown = ExhaustedError(3, lastError)
    /\ HandlerCatch(thrown).response.text
         = <<"Error: ", "Operation failed after ", "3", " attempts: ",
             "ERROR: HTTP Error 404: Not Found">>

(***************************************************************************)
(* Properties of get(k) and set(k, v) of two processes on one cache file.  *)
(***************************************************************************)
\* C36: under any interleaving of get(k) in one process with set(k, v) in
\* another process sharing the cache directory, a get never deletes an
\* entry that is parsable and unexpired: once the set has completed (and
\* no later set has begun; the clock does not move and nothing deletes or
\* clears), the file exists, its text parses and its data is v.
C36_CompletedSetStaysReadable ==
    writer.pc = "done" =>
      /\ disk.linked
      /\ disk.complete
      /\ JsonAccepts(disk.text)
      /\ ParseText(disk.text).data = writer.data

(***************************************************************************)
(* Frame properties of the cache.                                          *)
(***************************************************************************)
\* C37: a get(k) that returns a stored value (the file of k exists, its
\* text parses and now <= expiresAt) leaves the whole store unchanged: the
\* entry is not rewritten and its expiresAt is not extended, however often
\* it is read.
C37_HitLeavesStoreUnchanged ==
    [][ \A k \in CacheKeys :
          LET f == getCacheFile(k) IN
          ( /\ lastOp'.op = "get"
            /\ lastOp'.key = k
            /\ f \in DOMAIN files
            /\ files[f].parses
            /\ now <= files[f].expiresAt )
          => ( /\ files' = files
               /\ lastOp'.result = ParseEntry(files[f]).data
               /\ files'[f].expiresAt = files[f].expiresAt
               /\ files'[f].timestamp = files[f].timestamp ) ]_vars

\* an entry written a day ago is read at the instant of its expiry: the
\* value is returned and the entry still expires then
C37_Witness ==
    /\ lastOp.op = "get"
    /\ lastOp.path = "hit"
    /\ lastOp.result = JsObject("Some Title", 42)
    /\ now = DefaultTTL
    /\ getCacheFile(lastOp.key) \in DOMAIN files
    /\ files[getCacheFile(lastOp.key)].timestamp = 0
    /\ files[getCacheFile(lastOp.key)].expiresAt = now

\* C38 as stated: a get_video_info call that ends in failure leaves the
\* cache unchanged.
C38_FailureLeavesCacheUnchanged ==
    [][ lastInfo'.isError => files' = files ]_vars

\* C38, amended: a get_video_info call that ends in failure writes no
\* entry and rewrites none; the one change it can make to the cache is
\* that its lookup removes the file of its own key when that file's entry
\* has expired or its text does not parse.  Every unexpired entry is left
\* as it was, and the entry of the url is written only by a call whose
\* fetch and parse succeeded.
C38_FailureWritesNoEntry ==
    [][ lastInfo'.isError =>
          LET f == getCacheFile(cacheKey(lastInfo'.url)) IN
          /\ \A g \in DOMAIN files' :
                 g \in DOMAIN files /\ files'[g] = files[g]
          /\ \A g \in DOMAIN files \ DOMAIN files' :
                 /\ g = f
                 /\ ~files[g].parses \/ now > files[g].expiresAt
          /\ fetched' = fetched ]_vars

\* a call failed two days after the entry of its url was stored: the
\* lookup has removed the expired entry and the failure has written none
C38_Witness ==
    /\ lastInfo.isError
    /\ lastInfo.invoked
    /\ fetched[lastInfo.url] # <<>>
    /\ fetched[lastInfo.url][1].stored
    /\ now > fetched[lastInfo.url][1].at + DefaultTTL
    /\ getCacheFile(cacheKey(lastInfo.url)) \notin DOMAIN files

(***************************************************************************)
(* Properties of the arguments and the names of tools.                     *)
(***************************************************************************)
\* C39: every download_subtitles request that supplies both time_start and
\* time_end, with start not strictly before end when both are compared in
\* seconds (an end of 0:00 included), is rejected with a non-retryable
\* failure before the external tool is invoked.  (A request that failed
\* before its arguments were looked at, mkdtempSync throwing, is left out.)
C39_BadTimeRangeRejected ==
    \A c \in Requests :
        LET call == calls[c] IN
        ( /\ call.tool = "download_subtitles"
          /\ call.created # 0
          /\ call.time_start # <<>>
          /\ call.time_end # <<>>
          /\ ~parseTimeToSeconds(call.time_start).threw
          /\ ~parseTimeToSeconds(call.time_end).threw
          /\ parseTimeToSeconds(call.time_start).value
               >= parseTimeToSeconds(call.time_end).value )
        => ( /\ call.pc = "done"
             /\ call.failure.cls = "YouTubeMCPError"
             /\ ~call.failure.retryable
             /\ call.response.isError )

\* C40: every tool name advertised by the list-tools handler is accepted by
\* the call-tool dispatcher: a call of an advertised tool is routed to its
\* handler and is never answered with the "Unknown tool" failure.
C40_AdvertisedToolsAreDispatched ==
    \A c \in Requests :
        (calls[c].pc = "done" /\ calls[c].tool \in AdvertisedTools)
        => /\ calls[c].exit # "unknown-tool"
           /\ calls[c].response.text[1] # "Error: "
              \/ calls[c].response.text[2] # "Unknown tool: "

=============================================================================
